---------------------------- MODULE Spec2Model ----------------------------
(***************************************************************************)
(* Real-time collaboration core of the infinite-canvas whiteboard:         *)
(*   - the in-memory event log with snapshot replay and rollback           *)
(*     (routers/history.py),                                               *)
(*   - the per-board spatial chunk index (services/spatial.py),            *)
(*   - the session / broadcast hub (websocket/manager.py),                 *)
(*   - the message dispatch of one task per connection                     *)
(*     (websocket/handlers.py).                                            *)
(*                                                                         *)
(* Python dicts are functions whose DOMAIN is the set of keys present.     *)
(* Dict objects that the code shares by reference (a message's "object",   *)
(* "changes" and "previousState" dicts end up in the event store and in    *)
(* the index) live in `heap`; a reference is an index into heap and 0 is   *)
(* None.  A chunk id "cx:cy" is the pair <<cx, cy>>.                       *)
(***************************************************************************)
EXTENDS Integers, Sequences, FiniteSets, TLC

VARIABLES
    event_store,          \* history._event_store: board -> list of events
    heap,                 \* the dict objects shared by reference
    board_indexes,        \* spatial._board_indexes: board -> SpatialIndex
    active_connections,   \* manager.active_connections: board -> dict
    voice_channels,       \* manager.voice_channels
    voice_user_channels,  \* manager.voice_user_channels
    workspace_regions,    \* manager.workspace_regions
    conn,                 \* per websocket: the endpoint task and its transport
    appended,             \* history of add_event calls, by value (observer)
    response              \* result of the last REST call (observer)

vars == <<event_store, heap, board_indexes, active_connections, voice_channels,
          voice_user_channels, workspace_regions, conn, appended, response>>

logVars == <<event_store, heap, board_indexes, appended>>
hubVars == <<active_connections, voice_channels, voice_user_channels,
             workspace_regions>>

---------------------------------------------------------------------------
(* Bounds of the model *)

MaxEvents == 2    \* object messages handled, all boards together
MaxLog == 4       \* length of one board's log (rollbacks included)
MaxHeap == 4      \* dict objects, where only the index is exercised
MaxConns == 3     \* websockets
MaxMsgs == 1      \* presence and signaling messages, all websockets together
MaxDeaths == 1    \* transports that die
MaxHubEvents == 1 \* object messages where the hub is exercised
MaxHandled == 2   \* other messages handled, all websockets together

Boards == {"b1", "b2"}
ObjIds == {"A", "B"}
UserIds == {"u1", "u2", "u3"}

None == 0

---------------------------------------------------------------------------
(* Python helpers *)

\* dict.get(key, default)
Get(d, k, default) == IF k \in DOMAIN d THEN d[k] ELSE default

\* {**a, **b}: the keys of both, b's values win
Merge(a, b) == b @@ a

\* del d[k]
DictDel(d, k) == [j \in (DOMAIN d) \ {k} |-> d[j]]

\* d[k] = v
DictSet(d, k, v) == (k :> v) @@ d

Range(s) == {s[i] : i \in DOMAIN s}

---------------------------------------------------------------------------
(* Spatial chunk index: services/spatial.py *)

ChunkSize == 1000

EmptyIndex == [chunks |-> <<>>, objects |-> <<>>, object_chunks |-> <<>>]

\* ChunkCoord.from_world_coords: int(x // chunk_size), floor division
from_world_coords(x, y, chunk_size) ==
    [chunk_x |-> x \div chunk_size, chunk_y |-> y \div chunk_size]

\* the chunk ids of the inclusive range min_chunk .. max_chunk
ChunkRange(min_chunk, max_chunk) ==
    {<<cx, cy>> : cx \in min_chunk.chunk_x .. max_chunk.chunk_x,
                  cy \in min_chunk.chunk_y .. max_chunk.chunk_y}

\* the chunks add_object computes for payload `data`
OccupiedChunks(data) ==
    LET x == Get(data, "x", 0)
        y == Get(data, "y", 0)
        width == Get(data, "width", 0)
        height == Get(data, "height", 0)
        min_chunk == from_world_coords(x, y, ChunkSize)
        max_chunk == from_world_coords(x + width, y + height, ChunkSize)
    IN ChunkRange(min_chunk, max_chunk)

\* a faulty add_object, for comparison: it keeps the old chunk references
add_object_nopurge(idx, obj_id, ref, data) ==
    LET chunk_ids == OccupiedChunks(data)
        chunks2 == [c \in (DOMAIN idx.chunks) \cup chunk_ids |->
                      (IF c \in DOMAIN idx.chunks THEN idx.chunks[c] ELSE {})
                      \cup (IF c \in chunk_ids THEN {obj_id} ELSE {})]
    IN [chunks |-> chunks2,
        objects |-> DictSet(idx.objects, obj_id, ref),
        object_chunks |-> DictSet(idx.object_chunks, obj_id, chunk_ids)]

\* a faulty add_object, for comparison: it purges the old chunk references
\* after it has added the new ones
add_object_purge_last(idx, obj_id, ref, data) ==
    LET chunk_ids == OccupiedChunks(data)
        chunks1 == [c \in (DOMAIN idx.chunks) \cup chunk_ids |->
                      (IF c \in DOMAIN idx.chunks THEN idx.chunks[c] ELSE {})
                      \cup (IF c \in chunk_ids THEN {obj_id} ELSE {})]
        chunks2 == IF obj_id \in DOMAIN idx.object_chunks
                   THEN [c \in DOMAIN chunks1 |->
                           IF c \in idx.object_chunks[obj_id]
                           THEN chunks1[c] \ {obj_id}
                           ELSE chunks1[c]]
                   ELSE chunks1
    IN [chunks |-> chunks2,
        objects |-> DictSet(idx.objects, obj_id, ref),
        object_chunks |-> DictSet(idx.object_chunks, obj_id, chunk_ids)]

\* a faulty add_object, for comparison: the index is brought up to date
\* later, not in the call
add_object_deferred(idx, obj_id, ref, data) == idx

\* a faulty add_object, for comparison: an object that is indexed keeps the
\* dict it has (only its chunks follow the new data)
add_object_once(idx, obj_id, ref, data) ==
    LET chunks1 == IF obj_id \in DOMAIN idx.object_chunks
                   THEN [c \in DOMAIN idx.chunks |->
                           IF c \in idx.object_chunks[obj_id]
                           THEN idx.chunks[c] \ {obj_id}
                           ELSE idx.chunks[c]]
                   ELSE idx.chunks
        chunk_ids == OccupiedChunks(data)
        chunks2 == [c \in (DOMAIN chunks1) \cup chunk_ids |->
                      (IF c \in DOMAIN chunks1 THEN chunks1[c] ELSE {})
                      \cup (IF c \in chunk_ids THEN {obj_id} ELSE {})]
    IN [chunks |-> chunks2,
        objects |-> IF obj_id \in DOMAIN idx.objects
                    THEN idx.objects
                    ELSE DictSet(idx.objects, obj_id, ref),
        object_chunks |-> DictSet(idx.object_chunks, obj_id, chunk_ids)]

\* SpatialIndex.add_object(obj_id, data); ref is the reference of data
add_object(idx, obj_id, ref, data) ==
    LET chunks1 == IF obj_id \in DOMAIN idx.object_chunks
                   THEN [c \in DOMAIN idx.chunks |->
                           IF c \in idx.object_chunks[obj_id]
                           THEN idx.chunks[c] \ {obj_id}
                           ELSE idx.chunks[c]]
                   ELSE idx.chunks
        chunk_ids == OccupiedChunks(data)
        chunks2 == [c \in (DOMAIN chunks1) \cup chunk_ids |->
                      (IF c \in DOMAIN chunks1 THEN chunks1[c] ELSE {})
                      \cup (IF c \in chunk_ids THEN {obj_id} ELSE {})]
    IN [chunks |-> chunks2,
        objects |-> DictSet(idx.objects, obj_id, ref),
        object_chunks |-> DictSet(idx.object_chunks, obj_id, chunk_ids)]

\* a faulty remove_object, for comparison: it leaves the chunk member sets
remove_object_keep_chunks(idx, obj_id) ==
    IF obj_id \notin DOMAIN idx.objects
    THEN idx
    ELSE [chunks |-> idx.chunks,
          objects |-> DictDel(idx.objects, obj_id),
          object_chunks |-> DictDel(idx.object_chunks, obj_id)]

\* SpatialIndex.remove_object(obj_id): the index afterwards
remove_object(idx, obj_id) ==
    IF obj_id \notin DOMAIN idx.objects
    THEN idx
    ELSE LET occupied == Get(idx.object_chunks, obj_id, {})
         IN [chunks |-> [c \in DOMAIN idx.chunks |->
                           IF c \in occupied
                           THEN idx.chunks[c] \ {obj_id}
                           ELSE idx.chunks[c]],
             objects |-> DictDel(idx.objects, obj_id),
             object_chunks |-> DictDel(idx.object_chunks, obj_id)]

\* SpatialIndex.remove_object(obj_id): what the call returns.  `found` is
\* FALSE for the None of line 151; a KeyError is raised by line 158 when the
\* id has a payload and no chunk record.
remove_object_result(idx, obj_id) ==
    IF obj_id \notin DOMAIN idx.objects
    THEN [raised |-> FALSE, found |-> FALSE, ref |-> None]
    ELSE IF obj_id \notin DOMAIN idx.object_chunks
    THEN [raised |-> TRUE, found |-> FALSE, ref |-> None]
    ELSE [raised |-> FALSE, found |-> TRUE, ref |-> idx.objects[obj_id]]

\* SpatialIndex.get_all_objects(): the references, one per stored object
get_all_objects(idx) == {idx.objects[o] : o \in DOMAIN idx.objects}

\* a list made by iterating a set: the elements in some order, once each
RECURSIVE SetToSeq(_)
SetToSeq(S) ==
    IF S = {} THEN <<>>
    ELSE LET x == CHOOSE y \in S : TRUE
         IN <<x>> \o SetToSeq(S \ {x})

\* the chunk ids of range(min_chunk, max_chunk + 1) that have a member set
ViewportChunks(idx, viewport) ==
    LET min_chunk == from_world_coords(viewport.min_x, viewport.min_y, ChunkSize)
        max_chunk == from_world_coords(viewport.max_x, viewport.max_y, ChunkSize)
    IN ChunkRange(min_chunk, max_chunk) \cap DOMAIN idx.chunks

\* a faulty query_viewport, for comparison: it lists the members chunk by
\* chunk instead of collecting them in a set
RECURSIVE ConcatMembers(_, _)
ConcatMembers(idx, cs) ==
    IF cs = <<>> THEN <<>>
    ELSE LET members == SetToSeq(idx.chunks[Head(cs)] \cap DOMAIN idx.objects)
         IN [i \in 1..Len(members) |-> idx.objects[members[i]]]
            \o ConcatMembers(idx, Tail(cs))

query_viewport_per_chunk(idx, viewport) ==
    ConcatMembers(idx, SetToSeq(ViewportChunks(idx, viewport)))

\* SpatialIndex.query_viewport(viewport): the list of the references of the
\* payloads returned
query_viewport(idx, viewport) ==
    LET visible_objects == UNION {idx.chunks[c] : c \in ViewportChunks(idx, viewport)}
        ids == SetToSeq({o \in visible_objects : o \in DOMAIN idx.objects})
    IN [i \in 1..Len(ids) |-> idx.objects[ids[i]]]

\* SpatialIndex.query_chunks(chunk_ids): chunk id -> list of references
query_chunks(idx, chunk_ids) ==
    [c \in chunk_ids |->
        IF c \in DOMAIN idx.chunks
        THEN LET ids == SetToSeq({o \in idx.chunks[c] : o \in DOMAIN idx.objects})
             IN [i \in 1..Len(ids) |-> idx.objects[ids[i]]]
        ELSE <<>>]

\* SpatialIndex.get_stats()
get_stats(idx) ==
    [total_objects |-> Cardinality(DOMAIN idx.objects),
     total_chunks |-> Cardinality(DOMAIN idx.chunks),
     non_empty_chunks |-> Cardinality({c \in DOMAIN idx.chunks : idx.chunks[c] # {}}),
     chunk_size |-> ChunkSize]

---------------------------------------------------------------------------
(* Event log: routers/history.py *)

\* get_events_for_board
get_events_for_board(store, board_id) == store[board_id]

\* a faulty add_event, for comparison: it numbers from len(events)
add_event_off_by_one(events, event) ==
    Append(events, Merge([sequence_num |-> Len(events)], event))

\* add_event: the board's list after the append ({"sequence_num": seq,
\* **event}; the id and created_at keys of the record are left out)
add_event(events, event) ==
    LET seq == Len(events) + 1
    IN Append(events, Merge([sequence_num |-> seq], event))

\* a faulty record_canvas_event, for comparison: it records no actor
record_canvas_event_no_actor(events, event_type, object_id, previous_state, new_state, guest_session_id) ==
    add_event(events, [event_type |-> event_type,
                       object_id |-> object_id,
                       previous_state |-> previous_state,
                       new_state |-> new_state,
                       user_id |-> "None",
                       guest_session_id |-> "None"])

\* record_canvas_event
record_canvas_event(events, event_type, object_id, previous_state, new_state, guest_session_id) ==
    add_event(events, [event_type |-> event_type,
                       object_id |-> object_id,
                       previous_state |-> previous_state,
                       new_state |-> new_state,
                       user_id |-> "None",
                       guest_session_id |-> guest_session_id])

\* sorted(events, key=sequence_num): stable insertion sort
RECURSIVE InsertBySeq(_, _)
InsertBySeq(sorted, e) ==
    IF sorted = <<>> THEN <<e>>
    ELSE IF Head(sorted).sequence_num <= e.sequence_num
         THEN <<Head(sorted)>> \o InsertBySeq(Tail(sorted), e)
         ELSE <<e>> \o sorted

RECURSIVE SortBySeq(_)
SortBySeq(events) ==
    IF events = <<>> THEN <<>>
    ELSE InsertBySeq(SortBySeq(SubSeq(events, 1, Len(events) - 1)),
                     events[Len(events)])

Reverse(s) == [i \in 1..Len(s) |-> s[Len(s) + 1 - i]]

\* sorted(events, key=sequence_num, reverse=True): stable, largest first
RECURSIVE InsertBySeqDesc(_, _)
InsertBySeqDesc(sorted, e) ==
    IF sorted = <<>> THEN <<e>>
    ELSE IF Head(sorted).sequence_num >= e.sequence_num
         THEN <<Head(sorted)>> \o InsertBySeqDesc(Tail(sorted), e)
         ELSE <<e>> \o sorted

RECURSIVE SortBySeqDesc(_)
SortBySeqDesc(events) ==
    IF events = <<>> THEN <<>>
    ELSE InsertBySeqDesc(SortBySeqDesc(SubSeq(events, 1, Len(events) - 1)),
                         events[Len(events)])

\* s[a:b] of a list, 0 <= a <= b
Slice(s, a, b) ==
    LET hi == IF b < Len(s) THEN b ELSE Len(s)
    IN IF a >= hi THEN <<>> ELSE SubSeq(s, a + 1, hi)

\* a faulty get_history, for comparison: it pages through the log as stored
get_history_unsorted(events, event_type, limit, offset) ==
    LET filtered == IF event_type # <<>> /\ event_type[1] # ""
                    THEN SelectSeq(events,
                             LAMBDA e : e.event_type = event_type[1])
                    ELSE events
        total == Len(filtered)
    IN [events |-> Slice(filtered, offset, offset + limit),
        total |-> total,
        has_more |-> offset + limit < total]

\* get_history, lines 77-106: what it returns.  event_type is <<>> for None
\* and <<t>> otherwise (`if event_type:` also skips the filter for "").
get_history(events, event_type, limit, offset) ==
    LET filtered == IF event_type # <<>> /\ event_type[1] # ""
                    THEN SelectSeq(events,
                             LAMBDA e : e.event_type = event_type[1])
                    ELSE events
        sorted == SortBySeqDesc(filtered)
        total == Len(sorted)
    IN [events |-> Slice(sorted, offset, offset + limit),
        total |-> total,
        has_more |-> offset + limit < total]


---------------------------------------------------------------------------
(* get_snapshot: the replay loop, on the dict objects themselves.          *)
(* st = [objects: obj_id -> reference, heap, err]; err is an exception     *)
(* raised inside the loop (the request then ends with status 500 and the   *)
(* in-place updates made so far stay).                                     *)

ReplayStart(h) == [objects |-> <<>>, heap |-> h, err |-> FALSE]

\* one pass of the loop body, history.py lines 150-158
ReplayStep(st, event) ==
    LET obj_id == event.object_id
        event_type == event.event_type
    IN IF st.err THEN st
       ELSE IF event_type = "create" /\ obj_id # ""
       THEN \* objects[obj_id] = event.get("new_state", {}): the same dict
            [st EXCEPT !.objects = DictSet(st.objects, obj_id, event.new_state)]
       ELSE IF event_type = "update" /\ obj_id # ""
               /\ obj_id \in DOMAIN st.objects
       THEN \* objects[obj_id].update(event.get("new_state", {})), in place
            LET target == st.objects[obj_id]
            IN IF target = None \/ event.new_state = None
               THEN [st EXCEPT !.err = TRUE]
               ELSE [st EXCEPT !.heap[target] =
                        Merge(st.heap[target], st.heap[event.new_state])]
       ELSE IF event_type = "delete" /\ obj_id # ""
               /\ obj_id \in DOMAIN st.objects
       THEN [st EXCEPT !.objects = DictDel(st.objects, obj_id)]
       ELSE st

RECURSIVE ReplayLoop(_, _)
ReplayLoop(st, events) ==
    IF events = <<>> THEN st
    ELSE ReplayLoop(ReplayStep(st, Head(events)), Tail(events))

\* max(cutoff_events, key=sequence_num)["sequence_num"]
MaxSeq(events) ==
    CHOOSE n \in {e.sequence_num : e \in Range(events)} :
        \A e \in Range(events) : e.sequence_num <= n

\* get_snapshot(board_id, at_sequence): at_sequence is <<>> for None and
\* <<n>> for the number n (at_time is None).  `objects` of the result is the
\* dict of line 147 when the loop has ended, whose values the response
\* lists; the result carries the heap after the call.
get_snapshot(events, h, at_sequence) ==
    IF events = <<>>
    THEN [status |-> 200, sequence_num |-> 0, objects |-> <<>>, heap |-> h]
    ELSE LET cutoff_events ==
                 \* "if at_sequence:" is false for None and for 0
                 IF at_sequence # <<>> /\ at_sequence[1] # 0
                 THEN SelectSeq(events,
                                LAMBDA e : e.sequence_num <= at_sequence[1])
                 ELSE events
         IN IF cutoff_events = <<>>
            THEN [status |-> 200, sequence_num |-> 0, objects |-> <<>>,
                  heap |-> h]
            ELSE LET st == ReplayLoop(ReplayStart(h), SortBySeq(cutoff_events))
                     \* list(objects.values()) must be a list of dicts
                     bad == st.err \/ \E o \in DOMAIN st.objects :
                                          st.objects[o] = None
                 IN IF bad
                    THEN [status |-> 500, sequence_num |-> 0,
                          objects |-> <<>>, heap |-> st.heap]
                    ELSE [status |-> 200,
                          sequence_num |-> MaxSeq(cutoff_events),
                          objects |-> [o \in DOMAIN st.objects |->
                                         st.heap[st.objects[o]]],
                          heap |-> st.heap]

\* what a caller sees of a snapshot
SnapView(r) == [status |-> r.status, sequence_num |-> r.sequence_num,
                objects |-> r.objects]

---------------------------------------------------------------------------
(* rollback_to_point: the compensating event of one undone event *)

\* a faulty compensation, for comparison: it blanks the undone event in
\* the log and appends a delete
Compensate_rewrite(events, event) ==
    add_event([i \in 1..Len(events) |->
                 IF events[i].sequence_num = event.sequence_num
                 THEN [events[i] EXCEPT !.new_state = None]
                 ELSE events[i]],
              [event_type |-> "delete",
               object_id |-> event.object_id,
               previous_state |-> event.new_state,
               new_state |-> None,
               user_id |-> "None",
               guest_session_id |-> "system-rollback"])

Compensate(events, event) ==
    IF event.event_type = "create"
    THEN add_event(events, [event_type |-> "delete",
                            object_id |-> event.object_id,
                            previous_state |-> event.new_state,
                            new_state |-> None,
                            user_id |-> "None",
                            guest_session_id |-> "system-rollback"])
    ELSE IF event.event_type = "update"
    THEN add_event(events, [event_type |-> "update",
                            object_id |-> event.object_id,
                            previous_state |-> event.new_state,
                            new_state |-> event.previous_state,
                            user_id |-> "None",
                            guest_session_id |-> "system-rollback"])
    ELSE IF event.event_type = "delete"
    THEN add_event(events, [event_type |-> "create",
                            object_id |-> event.object_id,
                            previous_state |-> None,
                            new_state |-> event.previous_state,
                            user_id |-> "None",
                            guest_session_id |-> "system-rollback"])
    ELSE events

RECURSIVE CompensateAll(_, _)
CompensateAll(events, to_undo) ==
    IF to_undo = <<>> THEN events
    ELSE CompensateAll(Compensate(events, Head(to_undo)), Tail(to_undo))

\* a faulty selection, for comparison: it takes the target event as well
events_to_undo_inclusive(events, target_sequence) ==
    Reverse(SortBySeq(SelectSeq(events,
                LAMBDA e : e.sequence_num >= target_sequence)))

\* a faulty order, for comparison: it undoes the oldest event first
events_to_undo_ascending(events, target_sequence) ==
    SortBySeq(SelectSeq(events, LAMBDA e : e.sequence_num > target_sequence))

\* events_to_undo, newest first
events_to_undo(events, target_sequence) ==
    Reverse(SortBySeq(SelectSeq(events,
                LAMBDA e : e.sequence_num > target_sequence)))

\* rollback_to_point: the board's list afterwards (unchanged when the
\* request is rejected with status 400)
rollback_to_point(events, target_sequence) ==
    CompensateAll(events, events_to_undo(events, target_sequence))


---------------------------------------------------------------------------
(* Session / broadcast hub: websocket/manager.py                           *)
(*                                                                         *)
(* active_connections[b] is the dict of board b: `slots` are its entries   *)
(* in insertion order, a deleted entry stays as a dead slot (CPython keeps *)
(* the entry array and iterates it by position), `gen` tells the dict      *)
(* objects of one board apart (the dict is dropped when it becomes empty   *)
(* and a new one is made by the next connect), `present` says whether the  *)
(* board key exists.                                                       *)

cursor_colors == <<"#FF6B6B", "#4ECDC4", "#45B7D1", "#96CEB4", "#FFEAA7",
                   "#DDA0DD", "#98D8C8", "#F7DC6F", "#BB8FCE", "#85C1E9">>

DeadSlot == [live |-> FALSE, websocket |-> 0, user_id |-> "",
             display_name |-> "", color |-> "", avatar_url |-> "None",
             cursor_x |-> 0, cursor_y |-> 0]

NoBoardDict == [present |-> FALSE, gen |-> 0, slots |-> <<>>]

LiveSlots(d) == {i \in 1..Len(d.slots) : d.slots[i].live}

\* user_id in self.active_connections[board_id]
HasUser(d, user_id) ==
    d.present /\ \E i \in LiveSlots(d) : d.slots[i].user_id = user_id

SlotOf(d, user_id) ==
    CHOOSE i \in LiveSlots(d) : d.slots[i].user_id = user_id

\* the websockets registered on a board
Registered(d) == {d.slots[i].websocket : i \in LiveSlots(d)}

Min(S) == CHOOSE n \in S : \A m \in S : n <= m

\* the state the hub operations and the endpoint tasks work on
World == [ac |-> active_connections, vc |-> voice_channels,
          vuc |-> voice_user_channels, wr |-> workspace_regions,
          conn |-> conn]

\* a faulty choice, for comparison: always the first palette color
get_color_first(d) == cursor_colors[1]

\* ConnectionManager._get_color
get_color(d) ==
    LET used_colors == {d.slots[i].color : i \in LiveSlots(d)}
        free == {k \in 1..Len(cursor_colors) : cursor_colors[k] \notin used_colors}
    IN IF free # {} THEN cursor_colors[Min(free)] ELSE cursor_colors[1]

\* ConnectionManager._ensure_default_voice_channel
ensure_default_voice_channel(channels) ==
    IF "voice-general" \in DOMAIN channels
    THEN channels
    ELSE DictSet(channels, "voice-general",
                 [id |-> "voice-general", name |-> "Allgemein"])

\* ConnectionManager.get_user_voice_channel ("" is None)
get_user_voice_channel(W, board_id, user_id) ==
    Get(W.vuc[board_id], user_id, "")

\* a faulty membership map, for comparison: one map for all boards
set_user_voice_channel_shared(W, board_id, user_id, channel_id) ==
    [W EXCEPT !.vuc = [b \in Boards |-> DictSet(W.vuc[b], user_id, channel_id)]]

\* ConnectionManager.set_user_voice_channel
set_user_voice_channel(W, board_id, user_id, channel_id) ==
    [W EXCEPT !.vuc[board_id] = DictSet(@, user_id, channel_id)]

\* a faulty registration, for comparison: it always adds a new entry
RegisterAppend(d, user) ==
    [present |-> TRUE, gen |-> d.gen, slots |-> Append(d.slots, user)]

\* self.active_connections[board_id][user_id] = user (lines 117-120)
Register(d, user) ==
    IF HasUser(d, user.user_id)
    THEN [d EXCEPT !.slots[SlotOf(d, user.user_id)] = user]
    ELSE [present |-> TRUE, gen |-> d.gen, slots |-> Append(d.slots, user)]

\* a faulty disconnect, for comparison: it keeps the board's emptied dict
disconnect_noprune(W, board_id, user_id) ==
    LET d == W.ac[board_id]
        d1 == IF HasUser(d, user_id)
              THEN [d EXCEPT !.slots[SlotOf(d, user_id)] = DeadSlot]
              ELSE d
        W1 == [W EXCEPT !.ac[board_id] = d1,
                        !.vuc[board_id] = DictDel(@, user_id)]
    IN IF HasUser(d, user_id)
       THEN [W1 EXCEPT !.conn[d.slots[SlotOf(d, user_id)].websocket].left_behind =
                <<[others |-> Registered(d1),
                   channel |-> Get(W.vuc[board_id], user_id, "")]>>]
       ELSE W1

\* ConnectionManager.disconnect
disconnect(W, board_id, user_id) ==
    LET d == W.ac[board_id]
        d1 == IF HasUser(d, user_id)
              THEN [d EXCEPT !.slots[SlotOf(d, user_id)] = DeadSlot]
              ELSE d
        d2 == IF d.present /\ LiveSlots(d1) = {}
              THEN [present |-> FALSE, gen |-> d.gen + 1, slots |-> <<>>]
              ELSE d1
        W1 == [W EXCEPT !.ac[board_id] = d2,
                        !.vuc[board_id] = DictDel(@, user_id)]
    IN IF HasUser(d, user_id)
       THEN \* observer: who stayed behind, and the membership that ended
            [W1 EXCEPT !.conn[d.slots[SlotOf(d, user_id)].websocket].left_behind =
                <<[others |-> Registered(d2),
                   channel |-> Get(W.vuc[board_id], user_id, "")]>>]
       ELSE W1

RECURSIVE DisconnectAll(_, _, _)
DisconnectAll(W, board_id, user_ids) ==
    IF user_ids = <<>> THEN W
    ELSE DisconnectAll(disconnect(W, board_id, Head(user_ids)), board_id,
                       Tail(user_ids))

---------------------------------------------------------------------------
(* The dict iterator of `for user_id, user in ....items()` in broadcast.   *)
(* it.used is the dict's size when the iterator was made, it.remaining     *)
(* the entries it still expects, it.pos the last entry position visited.   *)

\* next(iterator) and the `continue` of an excluded user: runs up to the
\* next entry to send to, the end of the dict, or a RuntimeError
\* ("dictionary changed size during iteration", "dictionary keys changed
\* during iteration")
RECURSIVE IterNext(_, _)
IterNext(d, it) ==
    LET same == d.gen = it.gen
        slots == IF same THEN d.slots ELSE <<>>
        size == IF same THEN Cardinality(LiveSlots(d)) ELSE 0
        cand == {i \in (it.pos + 1)..Len(slots) : slots[i].live}
    IN IF size # it.used THEN [kind |-> "error", it |-> it, slot |-> 0]
       ELSE IF cand = {} THEN [kind |-> "stop", it |-> it, slot |-> 0]
       ELSE IF it.remaining = 0 THEN [kind |-> "error", it |-> it, slot |-> 0]
       ELSE LET i == Min(cand)
                it2 == [it EXCEPT !.pos = i, !.remaining = @ - 1]
            IN IF it.exclude # "" /\ slots[i].user_id = it.exclude
               THEN IterNext(d, it2)
               ELSE [kind |-> "send", it |-> it2, slot |-> i]

NewIter(d, board_id, message, exclude_user, ctx) ==
    [board |-> board_id, gen |-> d.gen, pos |-> 0,
     used |-> Cardinality(LiveSlots(d)),
     remaining |-> Cardinality(LiveSlots(d)),
     disconnected |-> <<>>, msg |-> message, exclude |-> exclude_user,
     ctx |-> ctx,
     \* observers: who was registered at the call, who was sent to, whose
     \* send raised
     at_start |-> Registered(d), sent_to |-> <<>>, failed |-> {}]


---------------------------------------------------------------------------
(* The endpoint task of one websocket: websocket/handlers.py.              *)
(* conn[w].pc names the await the task is suspended at:                    *)
(*   "init" (no connection yet), "accept", "bcast" (a send_json inside     *)
(*   broadcast), "users_list", "voice_channels_sync",                      *)
(*   "voice_channel_users", "workspace_regions_sync", "board_sync" (the    *)
(*   direct sends of connect), "recv" (receive_json), "done".              *)
(* An action resumes a task and runs it to its next await.                 *)
(* conn[v].inbox[w] is what task w has sent on the transport of v, in the  *)
(* order of the sends.                                                     *)

Conns == 1..MaxConns

InitConn == [pc |-> "init", board_id |-> "", user_id |-> "", alive |-> FALSE,
             iter |-> <<>>, channel_id |-> "",
             inbox |-> [v \in 1..MaxConns |-> <<>>], budget |-> 0,
             exit |-> "", last |-> <<>>, left_behind |-> <<>>,
             died |-> FALSE]

\* the task ends; the server closes its socket
Finish(W, w, how) ==
    [W EXCEPT !.conn[w].pc = "done", !.conn[w].exit = how,
              !.conn[w].alive = FALSE, !.conn[w].iter = <<>>]

\* an exception other than WebSocketDisconnect raised in context ctx:
\* inside handle_message it reaches "except Exception" (lines 61-63), which
\* disconnects without any broadcast; in connect, in the board_sync send and
\* inside the "except WebSocketDisconnect" block nothing catches it
Raise(W, w, ctx) ==
    IF ctx = "handler"
    THEN Finish(disconnect(W, W.conn[w].board_id, W.conn[w].user_id), w,
                "handler_error")
    ELSE Finish(W, w, "unhandled")

\* await websocket.send_json(message) on the task's own socket, outside try
SendOwn(W, w, message, next_pc) ==
    IF W.conn[w].alive
    THEN [W EXCEPT !.conn[w].inbox[w] = Append(@, message),
                   !.conn[w].pc = next_pc]
    ELSE Raise(W, w, "connect")

\* what is left of a broadcast call when it ends (observer)
Summary(it, outcome, W_end, removed) ==
    [outcome |-> outcome, board |-> it.board, msg |-> it.msg,
     exclude |-> it.exclude, at_start |-> it.at_start,
     sent_to |-> it.sent_to, failed |-> it.failed, removed |-> removed,
     \* registered at the call and at the end, not excluded, transport up
     stayed |-> {v \in it.at_start :
                   /\ v \in Registered(W_end.ac[it.board])
                   /\ W_end.conn[v].alive
                   /\ W_end.conn[v].user_id # it.exclude},
     voice_purged |-> \A u \in Range(it.disconnected) :
                         u \notin DOMAIN W_end.vuc[it.board]]

\* users_list of connect, lines 141-153
UsersList(W, board_id, user_id) ==
    LET d == W.ac[board_id]
    IN {[userId |-> d.slots[i].user_id,
         displayName |-> d.slots[i].display_name,
         color |-> d.slots[i].color,
         cursorX |-> d.slots[i].cursor_x,
         cursorY |-> d.slots[i].cursor_y,
         avatarUrl |-> d.slots[i].avatar_url,
         channelId |-> get_user_voice_channel(W, board_id, d.slots[i].user_id)]
        : i \in {j \in LiveSlots(d) : d.slots[j].user_id # user_id}}

RECURSIVE RunLoop(_, _)
RECURSIVE AfterBroadcast(_, _, _)
RECURSIVE StartBroadcast(_, _, _, _, _, _)

\* ConnectionManager.broadcast from the point where the task is resumed (or
\* from the start of the loop) to its next successful send, its end or its
\* RuntimeError.  A send that raises is caught and the loop goes on.
RunLoop(W, w) ==
    LET it == W.conn[w].iter[1]
        d == W.ac[it.board]
        r == IterNext(d, it)
    IN IF r.kind = "send"
       THEN LET user == d.slots[r.slot]
                target == user.websocket
            IN IF W.conn[target].alive
               THEN [W EXCEPT !.conn[target].inbox[w] = Append(@, it.msg),
                              !.conn[w].iter =
                                  <<[r.it EXCEPT !.sent_to = Append(@, target)]>>,
                              !.conn[w].pc = "bcast"]
               ELSE RunLoop([W EXCEPT !.conn[w].iter =
                                <<[r.it EXCEPT
                                     !.disconnected = Append(@, user.user_id),
                                     !.failed = @ \cup {target}]>>], w)
       ELSE IF r.kind = "stop"
       THEN LET W1 == DisconnectAll(W, it.board, it.disconnected)
                removed == Registered(d) \ Registered(W1.ac[it.board])
                W2 == [W1 EXCEPT !.conn[w].iter = <<>>,
                                 !.conn[w].last =
                                     <<Summary(it, "completed", W1, removed)>>]
            IN AfterBroadcast(W2, w, it.ctx)
       ELSE Raise([W EXCEPT !.conn[w].iter = <<>>,
                            !.conn[w].last =
                                <<Summary(it, "RuntimeError", W, {})>>],
                  w, it.ctx)

\* where the task goes on when a broadcast returns
AfterBroadcast(W, w, ctx) ==
    LET board_id == W.conn[w].board_id
        user_id == W.conn[w].user_id
    IN IF ctx = "connect"
       THEN SendOwn(W, w, [type |-> "users_list", via |-> "own",
                           users |-> UsersList(W, board_id, user_id)],
                    "users_list")
       ELSE IF ctx = "handler"
       THEN [W EXCEPT !.conn[w].pc = "recv"]
       ELSE IF ctx = "left" /\ W.conn[w].channel_id # ""
       THEN StartBroadcast(W, w, board_id,
                           [type |-> "voice_channel_leave", via |-> "hub",
                            userId |-> user_id,
                            channelId |-> W.conn[w].channel_id],
                           "", "leave")
       ELSE Finish(W, w, "closed")

\* ConnectionManager.broadcast(board_id, message, exclude_user) called by
\* task w in context ctx ("" is exclude_user=None)
StartBroadcast(W, w, board_id, message, exclude_user, ctx) ==
    IF ~W.ac[board_id].present
    THEN AfterBroadcast(W, w, ctx)
    ELSE RunLoop([W EXCEPT !.conn[w].iter =
                     <<NewIter(W.ac[board_id], board_id, message,
                               exclude_user, ctx)>>], w)

\* ConnectionManager.send_to_user, called by task w
send_to_user(W, w, board_id, user_id, message) ==
    LET d == W.ac[board_id]
    IN IF HasUser(d, user_id)
       THEN LET target == d.slots[SlotOf(d, user_id)].websocket
            IN IF W.conn[target].alive
               THEN [W EXCEPT !.conn[target].inbox[w] = Append(@, message)]
               ELSE disconnect(W, board_id, user_id)
       ELSE W

\* ConnectionManager.update_cursor
update_cursor(W, board_id, user_id, x, y) ==
    LET d == W.ac[board_id]
    IN IF HasUser(d, user_id)
       THEN [W EXCEPT !.ac[board_id].slots[SlotOf(d, user_id)] =
                [@ EXCEPT !.cursor_x = x, !.cursor_y = y]]
       ELSE W

Commit(W) ==
    /\ active_connections' = W.ac
    /\ voice_channels' = W.vc
    /\ voice_user_channels' = W.vuc
    /\ workspace_regions' = W.wr
    /\ conn' = W.conn


---------------------------------------------------------------------------
(* Connect: websocket_endpoint lines 25-35 and ConnectionManager.connect *)

\* the task is created for a new websocket and awaits websocket.accept()
StartConnect(W, w, board_id, user_id) ==
    [W EXCEPT !.conn[w] = [@ EXCEPT !.pc = "accept", !.board_id = board_id,
                                    !.user_id = user_id, !.alive = TRUE]]

\* connect lines 109-157: register, voice setup, user_joined, users_list
AfterAccept(W, w) ==
    LET board_id == W.conn[w].board_id
        user_id == W.conn[w].user_id
        d == W.ac[board_id]
        color == get_color(d)
        user == [live |-> TRUE, websocket |-> w, user_id |-> user_id,
                 display_name |-> "Anonymous", color |-> color,
                 avatar_url |-> "None", cursor_x |-> 0, cursor_y |-> 0]
        W1 == [W EXCEPT !.ac[board_id] = Register(d, user),
                        !.vc[board_id] = ensure_default_voice_channel(@)]
        W2 == set_user_voice_channel(W1, board_id, user_id, "voice-general")
    IN IF ~W.conn[w].alive
       THEN Raise(W, w, "connect")
       ELSE StartBroadcast(W2, w, board_id,
                [type |-> "user_joined", via |-> "hub", userId |-> user_id,
                 displayName |-> "Anonymous", color |-> color,
                 avatarUrl |-> "None",
                 channelId |-> get_user_voice_channel(W2, board_id, user_id)],
                user_id, "connect")

\* connect lines 159-162: get_voice_channels and the voice_channels_sync send
AfterUsersList(W, w) ==
    LET board_id == W.conn[w].board_id
        W1 == [W EXCEPT !.vc[board_id] = ensure_default_voice_channel(@)]
    IN SendOwn(W1, w, [type |-> "voice_channels_sync", via |-> "own",
                       channels |-> Range(W1.vc[board_id])],
               "voice_channels_sync")

\* connect lines 164-173
AfterVoiceChannelsSync(W, w) ==
    SendOwn(W, w, [type |-> "voice_channel_users", via |-> "own",
                   users |-> W.vuc[W.conn[w].board_id]],
            "voice_channel_users")

\* connect lines 175-180
AfterVoiceChannelUsers(W, w) ==
    SendOwn(W, w, [type |-> "workspace_regions_sync", via |-> "own",
                   regions |-> Range(W.wr[W.conn[w].board_id])],
            "workspace_regions_sync")

\* connect returns; websocket_endpoint lines 28-35.  The objects of the
\* message are the index's dicts as they are when the message is sent.
AfterRegionsSync(W, w, idx, h) ==
    IF get_all_objects(idx) # {}
    THEN SendOwn(W, w, [type |-> "board_sync", via |-> "own",
                        objects |-> [o \in DOMAIN idx.objects |->
                                       h[idx.objects[o]]]],
                 "board_sync")
    ELSE [W EXCEPT !.conn[w].pc = "recv"]

AfterBoardSync(W, w) == [W EXCEPT !.conn[w].pc = "recv"]

\* "except WebSocketDisconnect", lines 42-60
OnWebSocketDisconnect(W, w) ==
    LET board_id == W.conn[w].board_id
        user_id == W.conn[w].user_id
        channel_id == get_user_voice_channel(W, board_id, user_id)
        W1 == disconnect(W, board_id, user_id)
        W2 == [W1 EXCEPT !.conn[w].channel_id = channel_id]
    IN StartBroadcast(W2, w, board_id,
                      [type |-> "user_left", via |-> "hub", userId |-> user_id],
                      "", "left")

logUnchanged == UNCHANGED logVars

ConnectStart(w, board_id, user_id) ==
    /\ conn[w].pc = "init"
    /\ \A v \in Conns : v < w => conn[v].pc # "init"
    /\ Commit(StartConnect(World, w, board_id, user_id))
    /\ response' = <<>>
    /\ logUnchanged

Accepted(w) ==
    /\ conn[w].pc = "accept"
    /\ Commit(AfterAccept(World, w))
    /\ response' = <<>>
    /\ logUnchanged

ResumeUsersList(w) ==
    /\ conn[w].pc = "users_list"
    /\ Commit(AfterUsersList(World, w))
    /\ response' = <<>>
    /\ logUnchanged

ResumeVoiceChannelsSync(w) ==
    /\ conn[w].pc = "voice_channels_sync"
    /\ Commit(AfterVoiceChannelsSync(World, w))
    /\ response' = <<>>
    /\ logUnchanged

ResumeVoiceChannelUsers(w) ==
    /\ conn[w].pc = "voice_channel_users"
    /\ Commit(AfterVoiceChannelUsers(World, w))
    /\ response' = <<>>
    /\ logUnchanged

ResumeRegionsSync(w) ==
    /\ conn[w].pc = "workspace_regions_sync"
    /\ Commit(AfterRegionsSync(World, w, board_indexes[conn[w].board_id], heap))
    /\ response' = <<>>
    /\ logUnchanged

ResumeBoardSync(w) ==
    /\ conn[w].pc = "board_sync"
    /\ Commit(AfterBoardSync(World, w))
    /\ response' = <<>>
    /\ logUnchanged

\* a task suspended at a send inside broadcast is resumed
BroadcastResume(w) ==
    /\ conn[w].pc = "bcast"
    /\ Commit(RunLoop(World, w))
    /\ response' = <<>>
    /\ logUnchanged

\* the peer closes the connection or the transport dies
TransportDies(w) ==
    /\ conn[w].pc \notin {"init", "done"}
    /\ conn[w].alive
    /\ Cardinality({v \in Conns : conn[v].died}) < MaxDeaths
    /\ conn' = [conn EXCEPT ![w].alive = FALSE, ![w].died = TRUE]
    /\ response' = <<>>
    /\ UNCHANGED hubVars
    /\ logUnchanged

\* receive_json raises WebSocketDisconnect
RecvDisconnect(w) ==
    /\ conn[w].pc = "recv"
    /\ ~conn[w].alive
    /\ Commit(OnWebSocketDisconnect(World, w))
    /\ response' = <<>>
    /\ logUnchanged

---------------------------------------------------------------------------
(* handle_message: presence and signaling messages *)

\* a faulty loop, for comparison: it takes the next message while the
\* broadcast of the one before is suspended
CanReceive_busy(w) == conn[w].pc \in {"recv", "bcast"} /\ conn[w].alive

\* the task is at `await websocket.receive_json()` (lines 37-40: the next
\* message is read only when `await handle_message(...)` has returned)
CanReceive(w) == conn[w].pc = "recv" /\ conn[w].alive

Spend(W, w) == [W EXCEPT !.conn[w].budget = @ + 1]

\* the presence and signaling messages handled so far
RECURSIVE SumBudget(_)
SumBudget(w) == IF w = 0 THEN 0 ELSE conn[w].budget + SumBudget(w - 1)

Spent == SumBudget(MaxConns)

\* cursor_move, lines 71-86
CursorMove(w, x, y) ==
    /\ CanReceive(w)
    /\ Spent < MaxMsgs
    /\ LET board_id == conn[w].board_id
           user_id == conn[w].user_id
           W1 == update_cursor(Spend(World, w), board_id, user_id, x, y)
       IN Commit(StartBroadcast(W1, w, board_id,
                    [type |-> "cursor_update", via |-> "hub",
                     userId |-> user_id, x |-> x, y |-> y],
                    user_id, "handler"))
    /\ response' = <<>>
    /\ logUnchanged

\* call_start, lines 284-295: broadcast without exclude_user
CallStart(w) ==
    /\ CanReceive(w)
    /\ Spent < MaxMsgs
    /\ Commit(StartBroadcast(Spend(World, w), w, conn[w].board_id,
                 [type |-> "call_start", via |-> "hub",
                  userId |-> conn[w].user_id],
                 "", "handler"))
    /\ response' = <<>>
    /\ logUnchanged

\* ping, lines 209-215
Ping(w) ==
    /\ CanReceive(w)
    /\ Spent < MaxMsgs
    /\ Commit(send_to_user(Spend(World, w), w, conn[w].board_id, conn[w].user_id,
                           [type |-> "pong", via |-> "hub"]))
    /\ response' = <<>>
    /\ logUnchanged


---------------------------------------------------------------------------
(* handle_message: board_publish, voice channels, targeted signaling,      *)
(* user_profile, workspace regions.  `cap` bounds the messages handled.    *)
(* response' names the message that was handled (observer).                *)

\* ConnectionManager.upsert_voice_channel ("" is a missing id)
upsert_voice_channel(W, board_id, channel) ==
    LET channels == ensure_default_voice_channel(W.vc[board_id])
        channel_id == Get(channel, "id", "")
    IN IF channel_id # ""
       THEN [W EXCEPT !.vc[board_id] = DictSet(channels, channel_id, channel)]
       ELSE [W EXCEPT !.vc[board_id] = channels]

\* ConnectionManager.remove_voice_channel (an emptied board dict is dropped:
\* <<>> stands for both)
remove_voice_channel(W, board_id, channel_id) ==
    [W EXCEPT !.vc[board_id] = DictDel(@, channel_id)]

\* ConnectionManager.update_user_profile: the record it returns, <<>> for
\* None.  display_name and avatar_url are <<>> for None and <<v>> otherwise.
update_user_profile(W, board_id, user_id, display_name, avatar_url) ==
    LET d == W.ac[board_id]
    IN IF ~HasUser(d, user_id)
       THEN [world |-> W, user |-> <<>>]
       ELSE LET i == SlotOf(d, user_id)
                u1 == IF display_name # <<>>
                      THEN [d.slots[i] EXCEPT !.display_name = display_name[1]]
                      ELSE d.slots[i]
                u2 == IF avatar_url # <<>>
                      THEN [u1 EXCEPT !.avatar_url = avatar_url[1]]
                      ELSE u1
            IN [world |-> [W EXCEPT !.ac[board_id].slots[i] = u2],
                user |-> <<u2>>]

\* ConnectionManager.upsert_workspace_region
upsert_workspace_region(W, board_id, region) ==
    LET region_id == Get(region, "id", "")
    IN IF region_id # ""
       THEN [W EXCEPT !.wr[board_id] = DictSet(@, region_id, region)]
       ELSE W

\* the published objects with an id are upserted one after the other
RECURSIVE PublishAll(_, _, _, _)
PublishAll(idx, objects, k, base) ==
    IF k > Len(objects) THEN idx
    ELSE PublishAll(IF Get(objects[k], "id", "") # ""
                    THEN add_object(idx, objects[k]["id"], base + k, objects[k])
                    ELSE idx,
                    objects, k + 1, base)

\* board_publish, lines 187-207.  objects is data.get("objects", []).
BoardPublish(w, objects, cap) ==
    /\ CanReceive(w)
    /\ Spent < cap
    /\ LET board_id == conn[w].board_id
           user_id == conn[w].user_id
           refs == [k \in 1..Len(objects) |-> Len(heap) + k]
       IN /\ heap' = heap \o objects
          /\ board_indexes' = [board_indexes EXCEPT ![board_id] =
                                  PublishAll(@, objects, 1, Len(heap))]
          /\ IF objects # <<>>
             THEN Commit(StartBroadcast(Spend(World, w), w, board_id,
                            [type |-> "board_sync", via |-> "hub",
                             objects |-> refs],
                            user_id, "handler"))
             ELSE Commit(Spend(World, w))
          /\ response' = [op |-> "message", type |-> "board_publish",
                          ws |-> w, board |-> board_id, objects |-> objects,
                          refs |-> refs]
    /\ UNCHANGED <<event_store, appended>>

\* voice_channel_create, lines 219-229, and voice_channel_update, lines
\* 231-241 (msg_type is one of the two): broadcast without exclude_user
VoiceChannelUpsert(w, msg_type, channel, cap) ==
    /\ CanReceive(w)
    /\ Spent < cap
    /\ LET board_id == conn[w].board_id
       IN IF channel # <<>>
          THEN Commit(StartBroadcast(
                         upsert_voice_channel(Spend(World, w), board_id, channel),
                         w, board_id,
                         [type |-> msg_type, via |-> "hub", channel |-> channel],
                         "", "handler"))
          ELSE Commit(Spend(World, w))
    /\ response' = [op |-> "message", type |-> msg_type, ws |-> w,
                    board |-> conn[w].board_id, channel |-> channel]
    /\ logUnchanged

\* voice_channel_delete, lines 243-253
VoiceChannelDelete(w, channel_id, cap) ==
    /\ CanReceive(w)
    /\ Spent < cap
    /\ LET board_id == conn[w].board_id
       IN IF channel_id # ""
          THEN Commit(StartBroadcast(
                         remove_voice_channel(Spend(World, w), board_id, channel_id),
                         w, board_id,
                         [type |-> "voice_channel_delete", via |-> "hub",
                          channelId |-> channel_id],
                         "", "handler"))
          ELSE Commit(Spend(World, w))
    /\ response' = [op |-> "message", type |-> "voice_channel_delete",
                    ws |-> w, board |-> conn[w].board_id,
                    channelId |-> channel_id]
    /\ logUnchanged

\* voice_channel_join, lines 255-266
VoiceChannelJoin(w, channel_id, cap) ==
    /\ CanReceive(w)
    /\ Spent < cap
    /\ LET board_id == conn[w].board_id
           user_id == conn[w].user_id
       IN IF channel_id # ""
          THEN Commit(StartBroadcast(
                         set_user_voice_channel(Spend(World, w), board_id,
                                                user_id, channel_id),
                         w, board_id,
                         [type |-> "voice_channel_join", via |-> "hub",
                          userId |-> user_id, channelId |-> channel_id],
                         "", "handler"))
          ELSE Commit(Spend(World, w))
    /\ response' = [op |-> "message", type |-> "voice_channel_join",
                    ws |-> w, board |-> conn[w].board_id,
                    channel_id |-> channel_id]
    /\ logUnchanged

\* voice_channel_move, lines 268-280
VoiceChannelMove(w, channel_id, target_user_id, cap) ==
    /\ CanReceive(w)
    /\ Spent < cap
    /\ LET board_id == conn[w].board_id
       IN IF channel_id # "" /\ target_user_id # ""
          THEN Commit(StartBroadcast(
                         set_user_voice_channel(Spend(World, w), board_id,
                                                target_user_id, channel_id),
                         w, board_id,
                         [type |-> "voice_channel_move", via |-> "hub",
                          userId |-> target_user_id, channelId |-> channel_id],
                         "", "handler"))
          ELSE Commit(Spend(World, w))
    /\ response' = [op |-> "message", type |-> "voice_channel_move",
                    ws |-> w, board |-> conn[w].board_id,
                    target |-> target_user_id,
                    \* observer: the target was registered on the board
                    connected |-> HasUser(active_connections[conn[w].board_id],
                                          target_user_id)]
    /\ logUnchanged

\* call_decline, webrtc_offer, webrtc_answer and webrtc_ice, lines 342-393
\* (msg_type is one of the four): send_to_user to the target
Signal(w, msg_type, target_user_id, cap) ==
    /\ CanReceive(w)
    /\ Spent < cap
    /\ IF target_user_id # ""
       THEN Commit(send_to_user(Spend(World, w), w, conn[w].board_id,
                                target_user_id,
                                [type |-> msg_type, via |-> "hub",
                                 userId |-> conn[w].user_id]))
       ELSE Commit(Spend(World, w))
    /\ response' = [op |-> "message", type |-> msg_type, ws |-> w,
                    board |-> conn[w].board_id, target |-> target_user_id,
                    connected |-> HasUser(active_connections[conn[w].board_id],
                                          target_user_id)]
    /\ logUnchanged

\* user_profile, lines 395-414
UserProfile(w, display_name, avatar_url, cap) ==
    /\ CanReceive(w)
    /\ Spent < cap
    /\ LET board_id == conn[w].board_id
           user_id == conn[w].user_id
           r == update_user_profile(Spend(World, w), board_id, user_id,
                                    display_name, avatar_url)
       IN IF r.user # <<>>
          THEN Commit(StartBroadcast(r.world, w, board_id,
                         [type |-> "user_profile_update", via |-> "hub",
                          userId |-> user_id,
                          displayName |-> r.user[1].display_name,
                          avatarUrl |-> r.user[1].avatar_url],
                         user_id, "handler"))
          ELSE Commit(r.world)
    /\ response' = [op |-> "message", type |-> "user_profile", ws |-> w,
                    board |-> conn[w].board_id,
                    displayName |-> display_name, avatarUrl |-> avatar_url]
    /\ logUnchanged

\* workspace_region_create, lines 488-499
WorkspaceRegionCreate(w, region, cap) ==
    /\ CanReceive(w)
    /\ Spent < cap
    /\ LET board_id == conn[w].board_id
       IN IF region # <<>>
          THEN Commit(StartBroadcast(
                         upsert_workspace_region(Spend(World, w), board_id, region),
                         w, board_id,
                         [type |-> "workspace_region_create", via |-> "hub",
                          region |-> region],
                         conn[w].user_id, "handler"))
          ELSE Commit(Spend(World, w))
    /\ response' = [op |-> "message", type |-> "workspace_region_create",
                    ws |-> w, board |-> conn[w].board_id, region |-> region]
    /\ logUnchanged

\* workspace_region_update, lines 501-512
WorkspaceRegionUpdate(w, region, cap) ==
    /\ CanReceive(w)
    /\ Spent < cap
    /\ LET board_id == conn[w].board_id
       IN IF region # <<>>
          THEN Commit(StartBroadcast(
                         upsert_workspace_region(Spend(World, w), board_id, region),
                         w, board_id,
                         [type |-> "workspace_region_update", via |-> "hub",
                          region |-> region],
                         conn[w].user_id, "handler"))
          ELSE Commit(Spend(World, w))
    /\ response' = [op |-> "message", type |-> "workspace_region_update",
                    ws |-> w, board |-> conn[w].board_id, region |-> region]
    /\ logUnchanged

---------------------------------------------------------------------------
(* handle_message: object_create, object_update, object_delete.            *)
(* response' names the message that was handled (observer).                *)

\* an event as it is when it is appended: the dicts by value, <<>> for None
Val(h, ref) == IF ref = None THEN <<>> ELSE <<h[ref]>>

ByValue(e, h) ==
    [sequence_num |-> e.sequence_num, event_type |-> e.event_type,
     object_id |-> e.object_id,
     previous_state |-> Val(h, e.previous_state),
     new_state |-> Val(h, e.new_state),
     user_id |-> e.user_id, guest_session_id |-> e.guest_session_id]

Last(s) == s[Len(s)]

\* the events of object messages (not of rollbacks), all boards together
OrganicCount ==
    LET n(b) == Cardinality({i \in 1..Len(event_store[b]) :
                   event_store[b][i].guest_session_id # "system-rollback"})
    IN n("b1") + n("b2")

\* str(uuid4()) of line 91: an id no client object carries
uuid4(h) == <<"uuid", Len(h)>>

\* object_create, lines 88-115.  obj is data["object"].
ObjectCreate(w, obj, cap) ==
    /\ CanReceive(w)
    /\ OrganicCount < cap
    /\ LET board_id == conn[w].board_id
           user_id == conn[w].user_id
           ref == Len(heap) + 1
           obj_id == Get(obj, "id", uuid4(heap))
           events == record_canvas_event(event_store[board_id], "create",
                                         obj_id, None, ref, user_id)
       IN /\ heap' = Append(heap, obj)
          /\ event_store' = [event_store EXCEPT ![board_id] = events]
          /\ appended' = [appended EXCEPT ![board_id] =
                             Append(@, ByValue(Last(events), heap'))]
          /\ board_indexes' = [board_indexes EXCEPT ![board_id] =
                                  add_object(@, obj_id, ref, obj)]
          /\ Commit(StartBroadcast(World, w, board_id,
                       [type |-> "object_created", via |-> "hub",
                        userId |-> user_id, object |-> ref,
                        seq |-> Last(events).sequence_num],
                       user_id, "handler"))
    /\ response' = [op |-> "message", type |-> "object_create", ws |-> w,
                    board |-> conn[w].board_id, object_id |-> Get(obj, "id", uuid4(heap))]

\* a faulty test, for comparison: every message is taken to have an id
missing_object_id_never(obj_id) == FALSE

\* `if not obj_id: return` of object_update and object_delete, lines
\* 123-124 and 159-160
missing_object_id(obj_id) == obj_id = ""

\* object_update, lines 117-152.  object_id is data.get("objectId") ("" when
\* missing), changes is data["changes"], previous is <<>> when the message
\* has no previousState and <<dict>> otherwise.
ObjectUpdate(w, object_id, changes, previous, cap) ==
    /\ CanReceive(w)
    /\ OrganicCount < cap
    /\ IF missing_object_id(object_id)
       THEN UNCHANGED <<event_store, heap, board_indexes, appended,
                        active_connections, voice_channels,
                        voice_user_channels, workspace_regions, conn>>
       ELSE LET board_id == conn[w].board_id
                user_id == conn[w].user_id
                h1 == Append(heap, changes)
                changes_ref == Len(h1)
                h2 == IF previous = <<>> THEN h1 ELSE Append(h1, previous[1])
                previous_ref == IF previous = <<>> THEN None ELSE Len(h2)
                merged == Merge(IF previous = <<>> THEN <<>> ELSE previous[1],
                                changes)
                h3 == Append(h2, merged)
                events == record_canvas_event(event_store[board_id], "update",
                              object_id, previous_ref, changes_ref, user_id)
            IN /\ heap' = h3
               /\ event_store' = [event_store EXCEPT ![board_id] = events]
               /\ appended' = [appended EXCEPT ![board_id] =
                                  Append(@, ByValue(Last(events), heap'))]
               /\ board_indexes' = [board_indexes EXCEPT ![board_id] =
                                       add_object(@, object_id, Len(h3), merged)]
               /\ Commit(StartBroadcast(World, w, board_id,
                            [type |-> "object_updated", via |-> "hub",
                             userId |-> user_id, objectId |-> object_id,
                             changes |-> changes_ref,
                             seq |-> Last(events).sequence_num],
                            user_id, "handler"))
    /\ response' = [op |-> "message", type |-> "object_update", ws |-> w,
                    board |-> conn[w].board_id, object_id |-> object_id]

\* object_delete, lines 154-185
ObjectDelete(w, object_id, previous, cap) ==
    /\ CanReceive(w)
    /\ OrganicCount < cap
    /\ IF missing_object_id(object_id)
       THEN UNCHANGED <<event_store, heap, board_indexes, appended,
                        active_connections, voice_channels,
                        voice_user_channels, workspace_regions, conn>>
       ELSE LET board_id == conn[w].board_id
                user_id == conn[w].user_id
                h1 == IF previous = <<>> THEN heap ELSE Append(heap, previous[1])
                previous_ref == IF previous = <<>> THEN None ELSE Len(h1)
                events == record_canvas_event(event_store[board_id], "delete",
                              object_id, previous_ref, None, user_id)
            IN /\ heap' = h1
               /\ event_store' = [event_store EXCEPT ![board_id] = events]
               /\ appended' = [appended EXCEPT ![board_id] =
                                  Append(@, ByValue(Last(events), heap'))]
               /\ board_indexes' = [board_indexes EXCEPT ![board_id] =
                                       remove_object(@, object_id)]
               /\ Commit(StartBroadcast(World, w, board_id,
                            [type |-> "object_deleted", via |-> "hub",
                             userId |-> user_id, objectId |-> object_id,
                             seq |-> Last(events).sequence_num],
                            user_id, "handler"))
    /\ response' = [op |-> "message", type |-> "object_delete", ws |-> w,
                    board |-> conn[w].board_id, object_id |-> object_id]

---------------------------------------------------------------------------
(* REST: GET /history/snapshot and POST /history/rollback.  Neither        *)
(* handler awaits, so each runs as one step.                               *)

\* get_snapshot(board_id, at_sequence)
Snapshot(board_id, at_sequence) ==
    /\ LET r == get_snapshot(get_events_for_board(event_store, board_id),
                             heap, at_sequence)
       IN /\ heap' = r.heap
          /\ response' = [op |-> "snapshot", board |-> board_id,
                          at |-> at_sequence, view |-> SnapView(r)]
    /\ UNCHANGED <<event_store, board_indexes, appended, active_connections,
                   voice_channels, voice_user_channels, workspace_regions,
                   conn>>

\* rollback_to_point(board_id, target_sequence)
Rollback(board_id, target_sequence) ==
    LET events == get_events_for_board(event_store, board_id)
        to_undo == events_to_undo(events, target_sequence)
        after == rollback_to_point(events, target_sequence)
    IN /\ Len(events) + Len(to_undo) <= MaxLog
       /\ IF to_undo = <<>>
          THEN /\ response' = [op |-> "rollback", board |-> board_id,
                               target |-> target_sequence, status |-> 400]
               /\ UNCHANGED <<event_store, appended>>
          ELSE /\ event_store' = [event_store EXCEPT ![board_id] = after]
               /\ appended' = [appended EXCEPT ![board_id] =
                     @ \o [i \in 1..(Len(after) - Len(events)) |->
                             ByValue(after[Len(events) + i], heap)]]
               /\ response' = [op |-> "rollback", board |-> board_id,
                               target |-> target_sequence, status |-> 200,
                               rollback_events |-> Len(after) - Len(events),
                               new_sequence |-> Last(after).sequence_num,
                               \* observer: the snapshot at the target as
                               \* it was before the rollback
                               before |-> SnapView(get_snapshot(events, heap,
                                            <<target_sequence>>))]
       /\ UNCHANGED <<heap, board_indexes, active_connections, voice_channels,
                      voice_user_channels, workspace_regions, conn>>

\* get_history(board_id, limit, offset, event_type): the response carries
\* the events by value
GetHistory(board_id, event_type, limit, offset) ==
    /\ LET r == get_history(get_events_for_board(event_store, board_id),
                            event_type, limit, offset)
       IN response' = [op |-> "history", board |-> board_id,
                       event_type |-> event_type, limit |-> limit,
                       offset |-> offset,
                       events |-> [k \in 1..Len(r.events) |->
                                     ByValue(r.events[k], heap)],
                       total |-> r.total, has_more |-> r.has_more]
    /\ UNCHANGED <<event_store, heap, board_indexes, appended,
                   active_connections, voice_channels, voice_user_channels,
                   workspace_regions, conn>>

---------------------------------------------------------------------------
(* Initial states *)

World0 == [ac |-> [b \in Boards |-> NoBoardDict],
           vc |-> [b \in Boards |-> <<>>],
           vuc |-> [b \in Boards |-> <<>>],
           wr |-> [b \in Boards |-> <<>>],
           conn |-> [w \in Conns |-> InitConn]]

\* task w alone runs from its connect to its first receive_json, with an
\* empty spatial index
RECURSIVE Drive(_, _)
Drive(W, w) ==
    LET pc == W.conn[w].pc
    IN IF pc = "accept" THEN Drive(AfterAccept(W, w), w)
       ELSE IF pc = "bcast" THEN Drive(RunLoop(W, w), w)
       ELSE IF pc = "users_list" THEN Drive(AfterUsersList(W, w), w)
       ELSE IF pc = "voice_channels_sync"
       THEN Drive(AfterVoiceChannelsSync(W, w), w)
       ELSE IF pc = "voice_channel_users"
       THEN Drive(AfterVoiceChannelUsers(W, w), w)
       ELSE IF pc = "workspace_regions_sync"
       THEN Drive(AfterRegionsSync(W, w, EmptyIndex, <<>>), w)
       ELSE W

Connected(W, w, board_id, user_id) ==
    Drive(StartConnect(W, w, board_id, user_id), w)

\* the sessions that wait for messages when the object messages start:
\* u1 and u2 on the same board, or u1 and u2 on different boards
WorldsJoined ==
    {Connected(Connected(World0, 1, "b1", "u1"), 2, "b1", "u2"),
     Connected(Connected(World0, 1, "b1", "u1"), 2, "b2", "u2")}

InitStores ==
    /\ event_store = [b \in Boards |-> <<>>]
    /\ heap = <<>>
    /\ board_indexes = [b \in Boards |-> EmptyIndex]
    /\ appended = [b \in Boards |-> <<>>]
    /\ response = <<>>

InitWorld(W) ==
    /\ active_connections = W.ac
    /\ voice_channels = W.vc
    /\ voice_user_channels = W.vuc
    /\ workspace_regions = W.wr
    /\ conn = W.conn

\* the process after construction: nothing connected, nothing stored
InitHub == InitStores /\ InitWorld(World0)

\* two sessions are connected and wait for messages
Init == InitStores /\ \E W \in WorldsJoined : InitWorld(W)

---------------------------------------------------------------------------
(* Inputs *)

\* data["object"] of object_create
CreateObjects == {("id" :> "A") @@ ("x" :> 50),
                  ("id" :> "B") @@ ("x" :> 1500)}

\* data["changes"] of object_update
ChangeSets == {"x" :> 1500, "c" :> 1}

\* data.get("previousState"): missing, or what the client says the object was
PreviousStates == {<<>>, <<("id" :> "A") @@ ("x" :> 50)>>}

\* data.get("objectId"): missing or an id
MessageObjectIds == {"", "A"}

\* at_sequence of the snapshot request: 0
\* and the sequence numbers of the board's log
Cutoffs(board_id) == 0..Len(event_store[board_id])

\* target_sequence of rollback: also a number above every sequence number
Targets(board_id) == 0..(Len(event_store[board_id]) + 1)

---------------------------------------------------------------------------
(* The dispatch of object messages with the event log and the index *)

Next ==
    \/ \E w \in Conns, obj \in CreateObjects : ObjectCreate(w, obj, MaxEvents)
    \/ \E w \in Conns, o \in MessageObjectIds, c \in ChangeSets,
          p \in PreviousStates : ObjectUpdate(w, o, c, p, MaxEvents)
    \/ \E w \in Conns, o \in MessageObjectIds, p \in PreviousStates :
          ObjectDelete(w, o, p, MaxEvents)
    \/ \E w \in Conns : BroadcastResume(w)
    \/ \E b \in Boards : \E n \in Cutoffs(b) : Snapshot(b, <<n>>)
    \/ \E b \in Boards : Snapshot(b, <<>>)
    \/ \E b \in Boards : \E t \in Targets(b) : Rollback(b, t)

Spec == Init /\ [][Next]_vars

---------------------------------------------------------------------------
(* Paging through the history of a board that one session writes to *)
(* (with one session a broadcast has no send to be suspended at)         *)

WorldsHist == {Connected(World0, 1, "b1", "u1")}

InitHist == InitStores /\ \E W \in WorldsHist : InitWorld(W)

\* event_type of the request: missing, or a kind
HistoryTypes == {<<>>, <<"create">>, <<"delete">>}

\* limit (Query ge=1, le=200) and offset (Query ge=0)
HistoryLimits == {1, 2}

HistoryOffsets == {0, 1, 3}

NextHist ==
    \/ \E w \in Conns, obj \in CreateObjects : ObjectCreate(w, obj, MaxEvents)
    \/ \E w \in Conns, c \in ChangeSets :
          ObjectUpdate(w, "A", c, <<>>, MaxEvents)
    \/ \E w \in Conns : ObjectDelete(w, "A", <<>>, MaxEvents)
    \/ \E b \in Boards : \E t \in Targets(b) : Rollback(b, t)
    \/ \E b \in Boards, t \in HistoryTypes, l \in HistoryLimits,
          o \in HistoryOffsets : GetHistory(b, t, l, o)

SpecHist == InitHist /\ [][NextHist]_vars

---------------------------------------------------------------------------
(* Three sessions write to one board: the broadcasts of two senders can be *)
(* in flight while the third session is sent to                            *)

WorldsOrd ==
    {Connected(Connected(Connected(World0, 1, "b1", "u1"), 2, "b1", "u2"),
               3, "b1", "u3")}

InitOrd == InitStores /\ \E W \in WorldsOrd : InitWorld(W)

NextOrd ==
    \/ \E w \in Conns : ObjectCreate(w, ("id" :> "A") @@ ("x" :> 50), MaxEvents)
    \/ \E w \in Conns : ObjectUpdate(w, "A", "x" :> 1500, <<>>, MaxEvents)
    \/ \E w \in Conns : ObjectDelete(w, "A", <<>>, MaxEvents)
    \/ \E w \in Conns : BroadcastResume(w)

SpecOrd == InitOrd /\ [][NextOrd]_vars

---------------------------------------------------------------------------
(* The spatial index alone: upserts and removals with any geometry *)

\* payloads of upserts: missing keys default to 0
Geometries ==
    {("x" :> 50) @@ ("y" :> 50),
     ("x" :> 1500) @@ ("y" :> 1500),
     ("x" :> 900) @@ ("y" :> 0 - 100) @@ ("width" :> 200) @@ ("height" :> 200),
     ("x" :> 0 - 1) @@ ("width" :> 1001),
     ("y" :> 999) @@ ("height" :> 1)}

\* get_spatial_index(board_id).add_object(obj_id, data)
IndexAdd(board_id, obj_id, data) ==
    /\ Len(heap) < MaxHeap
    /\ heap' = Append(heap, data)
    /\ board_indexes' = [board_indexes EXCEPT ![board_id] =
                            add_object(@, obj_id, Len(heap) + 1, data)]
    /\ response' = [op |-> "add_object", board |-> board_id,
                    obj_id |-> obj_id, data |-> data,
                    \* observer: the call before was the same call
                    again |-> /\ response # <<>>
                              /\ response.op = "add_object"
                              /\ response.board = board_id
                              /\ response.obj_id = obj_id
                              /\ response.data = data]
    /\ UNCHANGED <<event_store, appended, active_connections,
                   voice_channels, voice_user_channels, workspace_regions,
                   conn>>

\* get_spatial_index(board_id).remove_object(obj_id)
IndexRemove(board_id, obj_id) ==
    /\ board_indexes' = [board_indexes EXCEPT ![board_id] =
                            remove_object(@, obj_id)]
    /\ response' = [op |-> "remove_object", board |-> board_id,
                    obj_id |-> obj_id,
                    result |-> remove_object_result(board_indexes[board_id],
                                                    obj_id)]
    /\ UNCHANGED <<event_store, heap, appended, active_connections,
                   voice_channels, voice_user_channels, workspace_regions,
                   conn>>

\* viewports of queries: one chunk, the chunk of the moved objects, a box
\* over four chunks around the origin, a box over every populated chunk, a
\* box where nothing is stored
Viewports ==
    {[min_x |-> 0, min_y |-> 0, max_x |-> 999, max_y |-> 999],
     [min_x |-> 1000, min_y |-> 1000, max_x |-> 1999, max_y |-> 1999],
     [min_x |-> 0 - 500, min_y |-> 0 - 500, max_x |-> 500, max_y |-> 500],
     [min_x |-> 0 - 1000, min_y |-> 0 - 1000, max_x |-> 1999, max_y |-> 1999],
     [min_x |-> 2500, min_y |-> 2500, max_x |-> 3500, max_y |-> 3500]}

\* get_spatial_index(board_id).query_viewport(viewport)
QueryViewport(board_id, viewport) ==
    /\ response' = [op |-> "query_viewport", board |-> board_id,
                    viewport |-> viewport,
                    result |-> query_viewport(board_indexes[board_id],
                                              viewport)]
    /\ UNCHANGED <<event_store, heap, board_indexes, appended,
                   active_connections, voice_channels, voice_user_channels,
                   workspace_regions, conn>>

NextIdx ==
    \/ \E o \in ObjIds, g \in Geometries : IndexAdd("b1", o, g)
    \/ \E o \in ObjIds : IndexRemove("b1", o)
    \/ \E v \in Viewports : QueryViewport("b1", v)

SpecIdx == InitHub /\ [][NextIdx]_vars

---------------------------------------------------------------------------
(* The hub with the endpoint tasks: connects, closes, presence messages *)

\* u1 and u2 are on b1 when the next connection comes
InitJoined ==
    InitStores /\
    InitWorld(Connected(Connected(World0, 1, "b1", "u1"), 2, "b1", "u2"))

\* board and user of a new connection: u1 once more on b1, a new user on
\* b1, a user on the other board
ConnectInputs == {<<"b1", "u1">>, <<"b1", "u3">>, <<"b2", "u1">>}

NextHub ==
    \/ \E w \in Conns : \E i \in ConnectInputs : ConnectStart(w, i[1], i[2])
    \/ \E w \in Conns : Accepted(w)
    \/ \E w \in Conns : ResumeUsersList(w)
    \/ \E w \in Conns : ResumeVoiceChannelsSync(w)
    \/ \E w \in Conns : ResumeVoiceChannelUsers(w)
    \/ \E w \in Conns : ResumeRegionsSync(w)
    \/ \E w \in Conns : ResumeBoardSync(w)
    \/ \E w \in Conns : BroadcastResume(w)
    \/ \E w \in Conns : TransportDies(w)
    \/ \E w \in Conns : RecvDisconnect(w)
    \/ \E w \in Conns : CursorMove(w, 10, 20)
    \/ \E w \in Conns : CallStart(w)
    \/ \E w \in Conns : Ping(w)
    \/ \E w \in Conns : ObjectCreate(w, ("id" :> "A") @@ ("x" :> 50), MaxHubEvents)

SpecHub == InitJoined /\ [][NextHub]_vars

---------------------------------------------------------------------------
(* The other messages of handle_message, with transports that die *)

\* three sessions wait for messages: all on b1, or u3 alone on b2
WorldsMsg ==
    {Connected(Connected(Connected(World0, 1, "b1", "u1"), 2, "b1", "u2"),
               3, "b1", "u3"),
     Connected(Connected(Connected(World0, 1, "b1", "u1"), 2, "b1", "u2"),
               3, "b2", "u3")}

InitMsg == InitStores /\ \E W \in WorldsMsg : InitWorld(W)

\* data.get("objects", []) of board_publish: no object, or an object with
\* an id and one without
Batches == {<<>>, <<("id" :> "A") @@ ("x" :> 50), "x" :> 1500>>}

\* data.get("channel"): a channel with the id of the default channel, a new
\* channel
Channels == {[id |-> "voice-general", name |-> "Lobby"],
             [id |-> "room1", name |-> "Room 1"]}

\* data.get("channelId")
ChannelIds == {"voice-general", "room1"}

\* data.get("targetUserId"): a user of b1, a user that never connected
TargetUsers == {"u2", "u9"}

\* data.get("displayName") and data.get("avatarUrl"): both missing, the
\* name the session already has, a new name and avatar
Profiles == {<<<<>>, <<>>>>, <<<<"Anonymous">>, <<>>>>,
             <<<<"Bob">>, <<"a.png">>>>}

\* data.get("region", {})
Regions == {[id |-> "r1", name |-> "Region 1"]}

NextMsg ==
    \/ \E w \in Conns : BroadcastResume(w)
    \/ \E w \in Conns : TransportDies(w)
    \/ \E w \in Conns : RecvDisconnect(w)
    \/ \E w \in Conns, objects \in Batches : BoardPublish(w, objects, MaxHandled)
    \/ \E w \in Conns, c \in Channels :
          VoiceChannelUpsert(w, "voice_channel_create", c, MaxHandled)
    \/ \E w \in Conns :
          VoiceChannelUpsert(w, "voice_channel_update",
                             [id |-> "voice-general", name |-> "Lobby"],
                             MaxHandled)
    \/ \E w \in Conns, c \in ChannelIds : VoiceChannelDelete(w, c, MaxHandled)
    \/ \E w \in Conns, t \in TargetUsers :
          VoiceChannelMove(w, "room1", t, MaxHandled)
    \/ \E w \in Conns, t \in TargetUsers :
          Signal(w, "call_decline", t, MaxHandled)
    \/ \E w \in Conns : Signal(w, "webrtc_offer", "u9", MaxHandled)
    \/ \E w \in Conns, p \in Profiles : UserProfile(w, p[1], p[2], MaxHandled)
    \/ \E w \in Conns, r \in Regions : WorkspaceRegionCreate(w, r, MaxHandled)

SpecMsg == InitMsg /\ [][NextMsg]_vars

\* Channel and region messages whose record has no "id", next to records
\* that have one and to the empty record; the default channel can be
\* deleted and a session can join a channel.
ChannelRecords == {<<>>, [name |-> "Lobby"], [id |-> "room1", name |-> "Room 1"]}

RegionRecords == {<<>>, [name |-> "Region"], [id |-> "r1", name |-> "Region 1"]}

NextReg ==
    \/ \E w \in Conns : BroadcastResume(w)
    \/ \E w \in Conns, c \in ChannelRecords :
          VoiceChannelUpsert(w, "voice_channel_create", c, MaxHandled)
    \/ \E w \in Conns, c \in ChannelRecords :
          VoiceChannelUpsert(w, "voice_channel_update", c, MaxHandled)
    \/ \E w \in Conns : VoiceChannelDelete(w, "voice-general", MaxHandled)
    \/ \E w \in Conns : VoiceChannelJoin(w, "room1", MaxHandled)
    \/ \E w \in Conns, r \in RegionRecords :
          WorkspaceRegionCreate(w, r, MaxHandled)
    \/ \E w \in Conns, r \in RegionRecords :
          WorkspaceRegionUpdate(w, r, MaxHandled)

SpecReg == InitMsg /\ [][NextReg]_vars

---------------------------------------------------------------------------
(* Properties of the event log *)

IsRollbackEvent(e) == e.guest_session_id = "system-rollback"

\* the board's log holds only events of object messages
OrganicLog(board_id) ==
    \A i \in 1..Len(event_store[board_id]) :
        ~IsRollbackEvent(event_store[board_id][i])

\* C1: on every board the stored events carry the sequence numbers 1..n in
\* log order (the first is 1, each next one is one more: no gap, no
\* duplicate), after any interleaving of object messages and rollbacks, and
\* whatever the other board's log holds.
C1_SequenceNumbers ==
    \A b \in Boards : \A i \in 1..Len(event_store[b]) :
        event_store[b][i].sequence_num = i

\* a board with an event of a message and a compensating event of a
\* rollback, next to another board with a log of another length
C1_Witness ==
    \E b \in Boards, c \in Boards :
        /\ b # c
        /\ Len(event_store[c]) >= 1
        /\ Len(event_store[b]) > Len(event_store[c])
        /\ \E i \in 1..Len(event_store[b]) : IsRollbackEvent(event_store[b][i])
        /\ \E i \in 1..Len(event_store[b]) : ~IsRollbackEvent(event_store[b][i])

\* the replay the snapshot is specified by, on the events as they were
\* appended: create inserts new_state, update merges new_state onto the
\* object that exists, delete removes it
RECURSIVE ReplayByValue(_, _)
ReplayByValue(objects, events) ==
    IF events = <<>> THEN objects
    ELSE LET e == Head(events)
             o == e.object_id
             next == IF e.event_type = "create" /\ e.new_state # <<>>
                     THEN DictSet(objects, o, e.new_state[1])
                     ELSE IF e.event_type = "update" /\ o \in DOMAIN objects
                             /\ e.new_state # <<>>
                     THEN DictSet(objects, o, Merge(objects[o], e.new_state[1]))
                     ELSE IF e.event_type = "delete"
                     THEN DictDel(objects, o)
                     ELSE objects
         IN ReplayByValue(next, Tail(events))

\* every create of the events is of an id that is not on the board, every
\* update and delete is of an object that is on the board
TargetsExist(events) ==
    \A i \in 1..Len(events) :
        LET before == ReplayByValue(<<>>, SubSeq(events, 1, i - 1))
        IN IF events[i].event_type = "create"
           THEN events[i].object_id \notin DOMAIN before
           ELSE events[i].object_id \in DOMAIN before

\* and every update and delete carries the object as it was (previousState)
HonestClients(events) ==
    /\ TargetsExist(events)
    /\ \A i \in 1..Len(events) :
          LET before == ReplayByValue(<<>>, SubSeq(events, 1, i - 1))
          IN events[i].event_type # "create"
             => events[i].previous_state = <<before[events[i].object_id]>>

\* C2: rollback law.  After a rollback to T >= 1 that succeeded, the replay of
\* the whole extended log gives the object map that the snapshot at T gave
\* on the log before the rollback (stated for a first rollback, on a log of
\* messages whose creates are of new ids and whose updates and deletes carry
\* the object as it was).
C2_RollbackLaw ==
    (/\ response # <<>>
     /\ response.op = "rollback"
     /\ response.status = 200
     /\ response.target >= 1
     /\ LET log == appended[response.board]
            old == SubSeq(log, 1, Len(log) - response.rollback_events)
        IN /\ \A i \in 1..Len(old) : ~IsRollbackEvent(old[i])
           /\ HonestClients(old))
    => LET after == SnapView(get_snapshot(event_store[response.board], heap,
                                          <<>>))
       IN /\ after.status = response.before.status
          /\ after.objects = response.before.objects

\* C3: replay law.  The snapshot at N >= 1 is the replay, from the empty map
\* and in ascending sequence order, of the events with sequence <= N, the
\* snapshot without cutoff is the replay of all events, and earlier snapshot
\* calls change nothing of it (stated for logs of object messages only).
C3_ReplayLaw ==
    (/\ response # <<>>
     /\ response.op = "snapshot"
     /\ OrganicLog(response.board)
     /\ (response.at = <<>> \/ response.at[1] >= 1))
    => LET log == appended[response.board]
           upto == IF response.at = <<>> THEN log
                   ELSE SelectSeq(log,
                            LAMBDA e : e.sequence_num <= response.at[1])
       IN response.view.objects = ReplayByValue(<<>>, upto)

\* the map object id -> payload held by the board's spatial index
IndexPayloads(board_id) ==
    [o \in DOMAIN board_indexes[board_id].objects |->
        heap[board_indexes[board_id].objects[o]]]

\* C4: when the object messages of a board are handled, the payloads held by
\* its spatial index are the object map of the replay of its whole log
\* (stated for logs of object messages only, whose creates are of new ids
\* and whose updates and deletes are of objects that are on the board).
C4_IndexIsReplayOfLog ==
    \A b \in Boards :
        (/\ OrganicLog(b)
         /\ TargetsExist(appended[b])
         /\ \A w \in Conns : conn[w].pc # "bcast")
        => IndexPayloads(b) = get_snapshot(event_store[b], heap, <<>>).objects

---------------------------------------------------------------------------
(* Properties of the spatial index *)

\* the chunks looked at: those around the geometries used
ChunkIds == {<<cx, cy>> : cx \in (0 - 2)..3, cy \in (0 - 2)..3}

\* chunk c lies in the inclusive range floor(min / size) .. floor(max / size)
\* of the bounding box (x, y, x + width, y + height) of payload data
InBoxRange(data, c) ==
    LET x == Get(data, "x", 0)
        y == Get(data, "y", 0)
        width == Get(data, "width", 0)
        height == Get(data, "height", 0)
    IN /\ x \div ChunkSize <= c[1]
       /\ c[1] <= (x + width) \div ChunkSize
       /\ y \div ChunkSize <= c[2]
       /\ c[2] <= (y + height) \div ChunkSize

\* C5: an object id is in a chunk's member set exactly when the object is
\* stored and the chunk lies in the chunk range of its stored bounding box;
\* after a move the object is in no chunk it has left.
C5_ChunkMembership ==
    \A b \in Boards : \A o \in ObjIds :
        LET idx == board_indexes[b]
        IN /\ \A c \in DOMAIN idx.chunks : c \in ChunkIds
           /\ \A c \in ChunkIds :
                (c \in DOMAIN idx.chunks /\ o \in idx.chunks[c])
                <=> (/\ o \in DOMAIN idx.objects
                     /\ InBoxRange(heap[idx.objects[o]], c))

\* A was stored at (50, 50) and is now stored at (1500, 1500): chunk 0:0 is
\* empty and chunk 1:1 holds A
C5_Witness ==
    LET idx == board_indexes["b1"]
    IN /\ Len(heap) = 2
       /\ heap[1] = ("x" :> 50) @@ ("y" :> 50)
       /\ heap[2] = ("x" :> 1500) @@ ("y" :> 1500)
       /\ DOMAIN idx.objects = {"A"}
       /\ idx.objects["A"] = 2
       /\ <<0, 0>> \in DOMAIN idx.chunks /\ idx.chunks[<<0, 0>>] = {}
       /\ <<1, 1>> \in DOMAIN idx.chunks /\ idx.chunks[<<1, 1>>] = {"A"}

---------------------------------------------------------------------------
(* Properties of the hub *)

\* the broadcast calls that have ended, one per task (its last one)
Ended == {conn[w].last[1] : w \in {v \in Conns : conn[v].last # <<>>}}

NoDuplicates(s) == \A i, j \in 1..Len(s) : s[i] = s[j] => i = j

\* C6: a broadcast sends the message to every session that is connected to
\* the board, is not the excluded user's and has a transport that accepts
\* it; it sends at most once per session, never to the excluded user and
\* never to a session of another board.
C6_BroadcastExclusion ==
    \A r \in Ended :
        /\ r.stayed \subseteq Range(r.sent_to)
        /\ NoDuplicates(r.sent_to)
        /\ \A v \in Range(r.sent_to) :
              /\ conn[v].board_id = r.board
              /\ r.exclude # "" => conn[v].user_id # r.exclude

\* C7: a broadcast during which sessions connect or disconnect ends without
\* an error and the task that issued it stays connected.
C7_BroadcastSurvivesChurn ==
    \A w \in Conns :
        conn[w].last # <<>>
        => /\ conn[w].last[1].outcome = "completed"
           /\ conn[w].exit # "handler_error"

\* C8: when sends of a broadcast fail, the other sessions are still sent
\* the message, no error reaches the broadcaster, and the pass removes
\* the sessions whose send failed, no other session, and their voice
\* membership.
C8_FailedDelivery ==
    \A r \in Ended :
        r.failed # {}
        => /\ r.outcome = "completed"
           /\ r.stayed \subseteq Range(r.sent_to)
           /\ r.removed \subseteq r.failed
           /\ r.voice_purged

\* task w has sent v a message of this type about this user
Sent(v, type, user_id) ==
    \E w \in Conns : \E i \in 1..Len(conn[v].inbox[w]) :
        /\ conn[v].inbox[w][i].type = type
        /\ conn[v].inbox[w][i].userId = user_id

SentLeave(v, user_id, channel_id) ==
    \E w \in Conns : \E i \in 1..Len(conn[v].inbox[w]) :
        /\ conn[v].inbox[w][i].type = "voice_channel_leave"
        /\ conn[v].inbox[w][i].userId = user_id
        /\ conn[v].inbox[w][i].channelId = channel_id

\* C9: a session has been removed from its board and the tasks that act for
\* its user on that board have ended (only those send user_left for the
\* user): every session that stayed on the board and can still be sent to
\* has been sent user_left for the user and, when the user was in a voice
\* channel, voice_channel_leave with that channel.
C9_LeftIsAnnounced ==
    \A w \in Conns :
        (/\ conn[w].left_behind # <<>>
         /\ \A t \in Conns :
               (conn[t].board_id = conn[w].board_id
                /\ conn[t].user_id = conn[w].user_id)
               => conn[t].pc = "done")
        => \A v \in conn[w].left_behind[1].others :
              (/\ v \in Registered(active_connections[conn[v].board_id])
               /\ conn[v].alive)
              => /\ Sent(v, "user_left", conn[w].user_id)
                 /\ conn[w].left_behind[1].channel # ""
                    => SentLeave(v, conn[w].user_id,
                                 conn[w].left_behind[1].channel)

\* C10: a user id has at most one session per board; the step in which a
\* connection registers leaves that connection registered for its user
\* (last connect wins); a message the hub routes is put on the transport
\* of a connection that is registered, never on a replaced one.
C10_OneSessionPerUser ==
    /\ [](\A b \in Boards :
            \A i, j \in LiveSlots(active_connections[b]) :
                active_connections[b].slots[i].user_id
                    = active_connections[b].slots[j].user_id
                => i = j)
    /\ [][\A w \in Conns :
            (conn[w].pc = "accept" /\ conn[w].alive /\ conn'[w].pc # "accept")
            => LET d == active_connections'[conn[w].board_id]
               IN /\ HasUser(d, conn[w].user_id)
                  /\ d.slots[SlotOf(d, conn[w].user_id)].websocket = w]_conn
    /\ [][\A v \in Conns : \A w \in Conns :
            (/\ Len(conn'[v].inbox[w]) > Len(conn[v].inbox[w])
             /\ Last(conn'[v].inbox[w]).via = "hub")
            => v \in Registered(active_connections'[conn'[v].board_id])]_conn

\* u1 is connected twice to b1: the newer connection is the registered one
\* and has been sent a message through the hub, the older task still runs
C10_Witness ==
    \E old \in Conns, new \in Conns :
        /\ old # new
        /\ conn[old].board_id = conn[new].board_id
        /\ conn[old].user_id = conn[new].user_id
        /\ conn[old].pc = "recv" /\ conn[old].alive
        /\ new \in Registered(active_connections[conn[new].board_id])
        /\ old \notin Registered(active_connections[conn[old].board_id])
        /\ \E w \in Conns : \E i \in 1..Len(conn[new].inbox[w]) :
              conn[new].inbox[w][i].via = "hub"

---------------------------------------------------------------------------
(* Properties of rollback and of the stored events *)

ObjectNotices == {"object_created", "object_updated", "object_deleted"}

\* session v has been sent the notification of event n of its board
Notified(v, n) ==
    \E w \in Conns : \E i \in 1..Len(conn[v].inbox[w]) :
        /\ conn[v].inbox[w][i].type \in ObjectNotices
        /\ conn[w].board_id = conn[v].board_id
        /\ conn[v].inbox[w][i].seq = n

\* C11: after a rollback to T >= 1 that succeeded, the board's spatial index
\* holds exactly the objects of the snapshot at T (the compensating events
\* have been applied to it), and every session connected to the board has
\* been sent a notification for each compensating event (stated for a first
\* rollback on a log of messages whose creates are of new ids and whose
\* updates and deletes carry the object as it was, with no broadcast of a
\* message still under way).
C11_RollbackReachesIndex ==
    (/\ response # <<>>
     /\ response.op = "rollback"
     /\ response.status = 200
     /\ response.target >= 1
     /\ response.before.status = 200
     /\ \A w \in Conns : conn[w].pc # "bcast"
     /\ LET log == appended[response.board]
            old == SubSeq(log, 1, Len(log) - response.rollback_events)
        IN /\ \A i \in 1..Len(old) : ~IsRollbackEvent(old[i])
           /\ HonestClients(old))
    => LET b == response.board
           n == Len(event_store[b])
       IN /\ DOMAIN IndexPayloads(b) = DOMAIN response.before.objects
          /\ \A v \in Registered(active_connections[b]) :
                \A k \in (n - response.rollback_events + 1)..n :
                    Notified(v, k)

\* C12: a rollback that succeeds leaves the log it found as a prefix of the
\* log afterwards, every earlier event with the contents it had, and gives
\* every compensating event a sequence number above every earlier one.
C12_RollbackIsForwardHistory ==
    [][(/\ response' # <<>>
        /\ response'.op = "rollback"
        /\ response'.status = 200)
       => LET old == event_store[response'.board]
              new == event_store'[response'.board]
          IN /\ Len(new) = Len(old) + response'.rollback_events
             /\ response'.rollback_events >= 1
             /\ SubSeq(new, 1, Len(old)) = old
             /\ \A i \in 1..Len(old) :
                   ByValue(new[i], heap') = ByValue(old[i], heap)
             /\ \A j \in (Len(old) + 1)..Len(new) : \A i \in 1..Len(old) :
                   new[j].sequence_num > old[i].sequence_num]_vars

\* a rollback has undone two events, one of them a compensating event of an
\* earlier rollback
C12_Witness ==
    /\ response # <<>>
    /\ response.op = "rollback"
    /\ response.status = 200
    /\ response.rollback_events = 2
    /\ LET log == event_store[response.board]
       IN \E i \in 1..(Len(log) - 2) : IsRollbackEvent(log[i])

\* C13: every stored event has the kind, object id, previous state and new
\* state it had when it was appended, whatever snapshot and rollback calls
\* and index mutations came later.
C13_EventsImmutable ==
    \A b \in Boards :
        /\ Len(event_store[b]) = Len(appended[b])
        /\ \A i \in 1..Len(event_store[b]) :
              ByValue(event_store[b][i], heap) = appended[b][i]

\* C17: a rollback to a target that no event of the board exceeds answers
\* with status 400 and appends nothing.
C17_NothingToRollback ==
    [][(/\ response' # <<>>
        /\ response'.op = "rollback"
        /\ ~\E i \in 1..Len(event_store[response'.board]) :
              event_store[response'.board][i].sequence_num > response'.target)
       => /\ response'.status = 400
          /\ event_store' = event_store
          /\ appended' = appended
          /\ heap' = heap]_vars

\* a rollback to the last sequence number of a log that is not empty was
\* rejected
C17_Witness ==
    /\ response # <<>>
    /\ response.op = "rollback"
    /\ response.status = 400
    /\ Len(event_store[response.board]) >= 1
    /\ response.target = Len(event_store[response.board])

\* C18: a snapshot request with an at_sequence that no event of the board
\* satisfies (0 included) answers with no objects and sequence number 0.
C18_EmptyCutoff ==
    (/\ response # <<>>
     /\ response.op = "snapshot"
     /\ response.at # <<>>
     /\ ~\E i \in 1..Len(event_store[response.board]) :
           event_store[response.board][i].sequence_num <= response.at[1])
    => /\ response.view.status = 200
       /\ response.view.objects = <<>>
       /\ response.view.sequence_num = 0

---------------------------------------------------------------------------
(* Properties of the queries and of remove *)

\* the chunks of the inclusive range floor(min / size) .. floor(max / size)
BoxChunks(viewport) ==
    {c \in ChunkIds :
        /\ viewport.min_x \div ChunkSize <= c[1]
        /\ c[1] <= viewport.max_x \div ChunkSize
        /\ viewport.min_y \div ChunkSize <= c[2]
        /\ c[2] <= viewport.max_y \div ChunkSize}

\* the stored objects that occupy a chunk of the viewport's range
InView(idx, viewport) ==
    {o \in DOMAIN idx.objects :
        \E c \in BoxChunks(viewport) : InBoxRange(heap[idx.objects[o]], c)}

IndexView(idx, h) ==
    [chunks |-> idx.chunks,
     objects |-> [o \in DOMAIN idx.objects |-> h[idx.objects[o]]],
     object_chunks |-> idx.object_chunks,
     stats |-> get_stats(idx)]

\* C15: an upsert that repeats the upsert before it (same id, same payload)
\* leaves chunk membership, payloads, object count and chunk count as they
\* were.
C15_UpsertIdempotent ==
    [][(/\ response' # <<>>
        /\ response'.op = "add_object"
        /\ response'.again)
       => IndexView(board_indexes'[response'.board], heap')
              = IndexView(board_indexes[response'.board], heap)]_vars

\* an upsert was repeated for an object that spans several chunks, next to
\* another stored object
C15_Witness ==
    /\ response # <<>>
    /\ response.op = "add_object"
    /\ response.again
    /\ Cardinality(OccupiedChunks(response.data)) >= 2
    /\ Cardinality(DOMAIN board_indexes[response.board].objects) = 2

\* C16: remove of an id that is not stored returns None, raises nothing and
\* leaves the index as it was; remove of a stored id returns its payload
\* and takes the id out of the payload store and of every chunk, so that no
\* viewport query, chunk query or object count includes it.
C16_Remove ==
    [][(response' # <<>> /\ response'.op = "remove_object")
       => LET old == board_indexes[response'.board]
              new == board_indexes'[response'.board]
              o == response'.obj_id
              r == response'.result
          IN /\ ~r.raised
             /\ IF o \notin DOMAIN old.objects
                THEN ~r.found /\ new = old /\ heap' = heap
                ELSE /\ r.found
                     /\ r.ref = old.objects[o]
                     /\ o \notin DOMAIN new.objects
                     /\ \A c \in DOMAIN new.chunks : o \notin new.chunks[c]
                     /\ \A v \in Viewports :
                           r.ref \notin Range(query_viewport(new, v))
                     /\ \A c \in ChunkIds :
                           r.ref \notin Range(query_chunks(new, {c})[c])
                     /\ get_stats(new).total_objects
                            = get_stats(old).total_objects - 1
                     /\ get_stats(new).non_empty_chunks
                            = Cardinality({c \in DOMAIN old.chunks :
                                             old.chunks[c] \ {o} # {}})]_vars

\* a stored object was removed while another object is stored in a chunk it
\* occupied
C16_Witness ==
    /\ response # <<>>
    /\ response.op = "remove_object"
    /\ response.result.found
    /\ LET idx == board_indexes[response.board]
       IN \E c \in OccupiedChunks(heap[response.result.ref]) :
             c \in DOMAIN idx.chunks /\ idx.chunks[c] # {}

---------------------------------------------------------------------------
(* Properties of the dispatch *)

\* the notifications of the messages handled here that exclude the sender
SenderExcluding == {"cursor_update", "object_created", "object_updated",
                    "object_deleted"}

\* task w has put message m on the transport of v
Delivered(v, w, m) ==
    \E i \in 1..Len(conn[v].inbox[w]) : conn[v].inbox[w][i] = m

\* C19: when the handler of a cursor_move or object message has ended, its
\* notification has not been sent to the sending session and has been sent
\* to every session of another user that was connected to the board during
\* the whole call and can be sent to.
C19_SenderExcluded ==
    \A w \in Conns :
        (/\ conn[w].last # <<>>
         /\ conn[w].last[1].msg.type \in SenderExcluding)
        => LET r == conn[w].last[1]
               others == {v \in r.at_start \ {w} :
                            /\ v \in Registered(active_connections[r.board])
                            /\ conn[v].alive
                            /\ conn[v].user_id # conn[w].user_id}
           IN /\ ~Delivered(w, w, r.msg)
              /\ \A v \in others : Delivered(v, w, r.msg)

KindOf(type) ==
    IF type = "object_created" THEN "create"
    ELSE IF type = "object_updated" THEN "update"
    ELSE "delete"

---------------------------------------------------------------------------
(* Properties of the other messages *)

\* the messages that name a target user
TargetedTypes == {"voice_channel_move", "call_decline", "webrtc_offer",
                  "webrtc_answer", "webrtc_ice"}

\* the step handled a message of one of the given types
Handled(types) ==
    /\ response' # <<>>
    /\ response'.op = "message"
    /\ response'.type \in types

\* no task sent anything in the step
NothingSent == \A v \in Conns : conn'[v].inbox = conn[v].inbox

\* C21: a targeted message (voice_channel_move, call_decline, webrtc_offer,
\* webrtc_answer, webrtc_ice) whose target is not a connected session of the
\* board changes nothing in the hub, sends nothing, and leaves the sender's
\* connection open and waiting for the next message.
C21_UnconnectedTarget ==
    [][(Handled(TargetedTypes) /\ ~response'.connected)
         => /\ UNCHANGED hubVars
            /\ NothingSent
            /\ conn'[response'.ws].pc = "recv"
            /\ conn'[response'.ws].alive]_vars

\* C22: the default voice channel "voice-general" can neither be deleted
\* nor replaced: whatever voice_channel_create, voice_channel_update and
\* voice_channel_delete messages were handled, the registry of a board
\* with sessions contains the default channel with its original record.
C22_DefaultChannelKept ==
    \A b \in Boards :
        active_connections[b].present
          => /\ "voice-general" \in DOMAIN voice_channels[b]
             /\ voice_channels[b]["voice-general"] =
                    [id |-> "voice-general", name |-> "Allgemein"]

---------------------------------------------------------------------------
(* Properties of the session map *)

\* C23: whenever a task can observe the hub, a board has an entry in the
\* board-to-sessions map exactly if at least one session is registered on
\* it: no entry has an empty session set.
C23_NoEmptyBoard ==
    \A b \in Boards :
        active_connections[b].present <=> LiveSlots(active_connections[b]) # {}

\* the last session of a board has left and the board's entry was dropped
C23_Witness ==
    \E b \in Boards :
        /\ ~active_connections[b].present
        /\ active_connections[b].gen > 0

---------------------------------------------------------------------------
(* Board isolation *)

\* what a board consists of: its sessions, its index and its log with the
\* dicts they hold, its voice channels, memberships and regions
BoardView(b) ==
    [sessions |-> active_connections[b],
     index |-> IndexView(board_indexes[b], heap),
     log |-> [i \in 1..Len(event_store[b]) |-> ByValue(event_store[b][i], heap)],
     voice_channels |-> voice_channels[b],
     voice_user_channels |-> voice_user_channels[b],
     workspace_regions |-> workspace_regions[b]]

\* the step is an operation for board b: a request that names b, or a step
\* of the task of a websocket that was opened for b
Acting(b) ==
    \/ response' # <<>> /\ response'.board = b
    \/ \E w \in Conns :
          /\ conn'[w].board_id = b
          /\ \/ conn'[w].pc # conn[w].pc
             \/ conn'[w].iter # conn[w].iter
             \/ conn'[w].budget # conn[w].budget
             \/ conn'[w].alive # conn[w].alive

\* nothing of board b changes and nothing is sent to its sessions
Untouched(b) ==
    /\ BoardView(b)' = BoardView(b)
    /\ \A v \in Conns : conn[v].board_id = b => conn'[v] = conn[v]

\* C24: board isolation.  A step handled for one board (connect,
\* disconnect, any message, snapshot, rollback, index query) leaves the
\* sessions, index, log, voice channels, voice memberships and regions of
\* every other board unchanged and sends nothing to the sessions of another
\* board.
C24_BoardIsolation ==
    [][/\ \A a \in Boards, b \in Boards : Acting(a) /\ Acting(b) => a = b
       /\ \A b \in Boards : Acting(b) \/ Untouched(b)]_vars

\* a broadcast on b1 has reached a session while the session of b2 waits
\* for messages, and the session of b2 has had a message handled
C24_Witness ==
    /\ conn[3].board_id = "b2"
    /\ conn[3].budget >= 1
    /\ \E w \in {1, 2} :
          /\ conn[w].last # <<>>
          /\ conn[w].last[1].board = "b1"
          /\ conn[w].last[1].sent_to # <<>>

---------------------------------------------------------------------------
(* Properties of connect *)

\* task w is inside ConnectionManager.connect or at the board_sync send
InConnect(w) ==
    \/ conn[w].pc \in {"accept", "users_list", "voice_channels_sync",
                       "voice_channel_users", "workspace_regions_sync",
                       "board_sync"}
    \/ conn[w].pc = "bcast" /\ conn[w].iter[1].ctx = "connect"

\* the types of what task w has sent on its own transport, in order
OwnTypes(w) == [i \in 1..Len(conn[w].inbox[w]) |-> conn[w].inbox[w][i].type]

\* C25: on connect of a new session, every other session of the board is
\* sent user_joined and the new session is not; the new session is sent
\* users_list, voice_channels_sync, voice_channel_users,
\* workspace_regions_sync and, for the objects of the board's index,
\* board_sync with all of them; and it is a member of the default voice
\* channel.  Stated for connections whose own transport does not fail.
C25_ConnectSync ==
    [][\A w \in Conns :
        \* registration: member of the default voice channel
        /\ (conn[w].pc = "accept" /\ conn'[w].pc \notin {"accept", "done"})
             => get_user_voice_channel(World', conn[w].board_id,
                                       conn[w].user_id) = "voice-general"
        \* the user_joined broadcast has ended
        /\ (InConnect(w) /\ conn[w].pc = "bcast" /\ conn'[w].iter = <<>>)
             => LET s == conn'[w].last[1]
                IN /\ s.msg.type = "user_joined"
                   /\ s.stayed \subseteq Range(s.sent_to)
                   /\ w \notin Range(s.sent_to)
        \* the objects of the index go out as board_sync
        /\ (/\ conn[w].pc = "workspace_regions_sync"
            /\ conn'[w].pc # "workspace_regions_sync"
            /\ conn[w].alive
            /\ DOMAIN board_indexes[conn[w].board_id].objects # {})
             => /\ Last(conn'[w].inbox[w]).type = "board_sync"
                /\ Last(conn'[w].inbox[w]).objects =
                       IndexPayloads(conn[w].board_id)
        \* the connect is over: the sync messages were sent, in order
        /\ (InConnect(w) /\ conn'[w].pc \in {"recv", "done"} /\ ~conn'[w].died)
             => /\ Len(OwnTypes(w)') >= 4
                /\ SubSeq(OwnTypes(w)', 1, 4) =
                       <<"users_list", "voice_channels_sync",
                         "voice_channel_users", "workspace_regions_sync">>
                /\ conn'[w].pc = "recv"]_vars

---------------------------------------------------------------------------
(* Properties of the compensating events *)

\* the events of a log with a sequence number above target
Above(log, target) ==
    {log[i] : i \in {j \in 1..Len(log) : log[j].sequence_num > target}}

\* the event of a set with the j-th largest sequence number
Newest(S, j) ==
    CHOOSE e \in S :
        Cardinality({f \in S : f.sequence_num > e.sequence_num}) = j - 1

\* c is the compensation of the undone event u
Compensates(c, u) ==
    /\ c.object_id = u.object_id
    /\ c.guest_session_id = "system-rollback"
    /\ c.user_id = "None"
    /\ u.event_type = "create" => c.event_type = "delete"
    /\ u.event_type = "update"
         => c.event_type = "update" /\ c.new_state = u.previous_state
    /\ u.event_type = "delete"
         => c.event_type = "create" /\ c.new_state = u.previous_state

\* C26: a successful rollback to T appends exactly one compensating event
\* per event above T, newest undone event first, as the system actor: a
\* delete for a create, an update to the previous state for an update, a
\* create with the previous state for a delete; their sequence numbers
\* follow the previous maximum without a gap.
C26_CompensatingEvents ==
    [][(/\ response' # <<>>
        /\ response'.op = "rollback"
        /\ response'.status = 200)
       => LET old == event_store[response'.board]
              new == event_store'[response'.board]
              undone == Above(old, response'.target)
              k == Cardinality(undone)
              n == Len(old)
          IN /\ Len(new) = n + k
             /\ SubSeq(new, 1, n) = old
             /\ response'.rollback_events = k
             /\ \A j \in 1..k :
                   /\ Compensates(new[n + j], Newest(undone, j))
                   /\ new[n + j].sequence_num = MaxSeq(old) + j
                   /\ ByValue(new[n + j], heap').new_state =
                          ByValue(Newest(undone, j), heap).previous_state]_vars

\* a rollback has undone a delete and the create before it: the log ends
\* with the system's create and delete, in this order
C26_Witness ==
    /\ response # <<>>
    /\ response.op = "rollback"
    /\ response.status = 200
    /\ response.rollback_events = 2
    /\ LET log == event_store[response.board]
           n == Len(log)
       IN /\ log[n - 3].event_type = "create"
          /\ log[n - 2].event_type = "delete"
          /\ log[n - 1].event_type = "create"
          /\ log[n].event_type = "delete"
          /\ log[n - 1].new_state # None

---------------------------------------------------------------------------
(* Properties of messages without an object id *)

\* C27: an object_update or object_delete message without an objectId is a
\* no-op: no event is appended, the index and the dicts it holds are
\* unchanged, nothing in the hub changes and no message is sent.
C27_MissingObjectId ==
    [][(Handled({"object_update", "object_delete"}) /\ response'.object_id = "")
       => /\ UNCHANGED <<event_store, heap, board_indexes, appended>>
          /\ UNCHANGED hubVars
          /\ NothingSent
          /\ conn' = conn]_vars

\* an update without an objectId was handled on a board that has an event
\* and an indexed object, by a session that shares the board with another
C27_Witness ==
    /\ response # <<>>
    /\ response.op = "message"
    /\ response.type = "object_update"
    /\ response.object_id = ""
    /\ Len(event_store[response.board]) >= 1
    /\ DOMAIN board_indexes[response.board].objects # {}
    /\ Cardinality(Registered(active_connections[response.board])) >= 2

---------------------------------------------------------------------------
(* Properties of the messages that are not object messages *)

\* the last object of a batch that carries the id o
LastWithId(objects, o) ==
    LET K == {k \in 1..Len(objects) : Get(objects[k], "id", "") = o}
    IN objects[CHOOSE k \in K : \A j \in K : j <= k]

PublishedIds(objects) ==
    {Get(objects[k], "id", "") : k \in 1..Len(objects)} \ {""}

BoardsOther(b) == Boards \ {b}

\* C28: only object_create, object_update, object_delete and rollback append
\* to an event log; every other message, connect and disconnect leaves
\* every log unchanged.  board_publish upserts each published object that
\* has an id into the board's index, and its batch goes as one board_sync
\* to every other session of the board and not to the sender.
C28_LogFrameAndPublish ==
    [][/\ (event_store' # event_store \/ appended' # appended)
            => \/ Handled({"object_create", "object_update", "object_delete"})
               \/ response' # <<>> /\ response'.op = "rollback"
       /\ Handled({"board_publish"})
            => LET b == response'.board
                   objects == response'.objects
                   old == IndexPayloads(b)
                   new == [o \in DOMAIN board_indexes'[b].objects |->
                              heap'[board_indexes'[b].objects[o]]]
               IN /\ DOMAIN new = DOMAIN old \cup PublishedIds(objects)
                  /\ \A o \in DOMAIN new :
                        new[o] = IF o \in PublishedIds(objects)
                                 THEN LastWithId(objects, o) ELSE old[o]
                  /\ \A c \in BoardsOther(b) :
                        board_indexes'[c] = board_indexes[c]
                  /\ objects # <<>>
                       => LET w == response'.ws
                              msg == [type |-> "board_sync", via |-> "hub",
                                      objects |-> response'.refs]
                          IN \/ conn'[w].iter # <<>> /\ conn'[w].iter[1].msg = msg
                             \/ conn'[w].last # <<>> /\ conn'[w].last[1].msg = msg
       /\ \A w \in Conns :
            (conn'[w].last # <<>> /\ conn'[w].last[1].msg.type = "board_sync")
              => LET s == conn'[w].last[1]
                 IN /\ s.stayed \subseteq Range(s.sent_to)
                    /\ NoDuplicates(s.sent_to)
                    /\ w \notin Range(s.sent_to)
                    /\ \A v \in Range(s.sent_to) :
                          Cardinality({i \in 1..Len(conn'[v].inbox[w]) :
                              conn'[v].inbox[w][i] = s.msg}) = 1]_vars

---------------------------------------------------------------------------
(* Properties of the cursor colors *)

UsedColors(d) == {d.slots[i].color : i \in LiveSlots(d)}

\* the color of the session of websocket w in the board dict d
ColorOf(d, w) ==
    d.slots[CHOOSE i \in LiveSlots(d) : d.slots[i].websocket = w].color

\* the sessions of every board have pairwise distinct colors
DistinctColors ==
    \A b \in Boards :
        LET d == active_connections[b]
        IN Cardinality(LiveSlots(d)) <= Len(cursor_colors)
             => \A i, j \in LiveSlots(d) :
                   d.slots[i].color = d.slots[j].color => i = j

---------------------------------------------------------------------------
(* Properties of user_profile *)

\* the record of the session of websocket w, <<>> when it is not registered
SessionOf(w) ==
    LET d == active_connections[conn[w].board_id]
    IN IF w \in Registered(d)
       THEN <<d.slots[CHOOSE i \in LiveSlots(d) : d.slots[i].websocket = w]>>
       ELSE <<>>

\* the profile message gives nothing that differs from the session's record
ChangesNothing(s, display_name, avatar_url) ==
    /\ display_name = <<>> \/ display_name[1] = s.display_name
    /\ avatar_url = <<>> \/ avatar_url[1] = s.avatar_url

\* C30: a user_profile message that carries neither displayName nor
\* avatarUrl, or only values the session already has, leaves the session
\* record unchanged and sends no message to any session: only a message
\* that changes something is followed by a user_profile_update.
C30_ProfileUnchanged ==
    [][(/\ Handled({"user_profile"})
        /\ SessionOf(response'.ws) # <<>>
        /\ ChangesNothing(SessionOf(response'.ws)[1], response'.displayName,
                          response'.avatarUrl))
       => /\ active_connections' = active_connections
          /\ NothingSent
          /\ conn'[response'.ws].iter = <<>>]_vars

---------------------------------------------------------------------------
(* Properties of the order of handling *)

\* the sequence numbers of the events of a board that a user has caused
SeqsOf(b, user_id) ==
    {event_store[b][i].sequence_num :
        i \in {j \in 1..Len(event_store[b]) :
                 event_store[b][j].guest_session_id = user_id}}

\* C31: the messages of one session are handled one after the other: the
\* handling of a message starts only when the session's task waits for a
\* message, with no broadcast of an earlier message of the session still
\* running; so the event of a later object message of a session has a
\* larger sequence number than the events of its earlier messages.
C31_OneAtATime ==
    [][\A w \in Conns :
        (/\ response' # <<>>
         /\ response'.op = "message"
         /\ response'.ws = w)
        => LET b == conn[w].board_id
           IN /\ conn[w].pc = "recv"
              /\ conn[w].iter = <<>>
              /\ event_store'[b] # event_store[b]
                   => /\ Last(event_store'[b]).guest_session_id = conn[w].user_id
                      /\ \A n \in SeqsOf(b, conn[w].user_id) :
                            n < Last(event_store'[b]).sequence_num]_vars

\* a session has had two object messages handled, the second after the
\* broadcast of the first had been suspended at a send and had gone on
C31_Witness ==
    \E w \in Conns :
        /\ conn[w].board_id \in Boards
        /\ Cardinality(SeqsOf(conn[w].board_id, conn[w].user_id)) = 2
        /\ conn[w].last # <<>>
        /\ conn[w].last[1].sent_to # <<>>
        /\ conn[w].iter # <<>>


\* the step appends one event of an object message to the log of board b
AppendsOrganic(b) ==
    /\ Len(event_store'[b]) = Len(event_store[b]) + 1
    /\ ~IsRollbackEvent(Last(event_store'[b]))

\* the index of board b after the step holds what the event e says
AppliedToIndex(b, e) ==
    LET objects == board_indexes'[b].objects
    IN CASE e.event_type = "create" ->
              /\ e.object_id \in DOMAIN objects
              /\ objects[e.object_id] = e.new_state
         [] e.event_type = "update" ->
              /\ e.object_id \in DOMAIN objects
              /\ heap'[objects[e.object_id]]
                   = Merge(IF e.previous_state = None THEN <<>>
                           ELSE heap'[e.previous_state],
                           heap'[e.new_state])
         [] e.event_type = "delete" -> e.object_id \notin DOMAIN objects

---------------------------------------------------------------------------
(* Properties of the channel and region registries *)

RecordTypes == {"voice_channel_create", "voice_channel_update",
                "workspace_region_create", "workspace_region_update"}

\* the record of a handled channel or region message
RecordOf(r) == IF "channel" \in DOMAIN r THEN r.channel ELSE r.region

\* C33: a voice_channel_create, voice_channel_update, workspace_region_create
\* or workspace_region_update message whose record has no id is dropped: the
\* channel registry and the region registry stay as they are, no message is
\* sent and no broadcast is begun, and the sender's connection stays open
\* and waits for the next message.
C33_RecordWithoutId ==
    [][(/\ Handled(RecordTypes)
        /\ "id" \notin DOMAIN RecordOf(response'))
       => /\ voice_channels' = voice_channels
          /\ workspace_regions' = workspace_regions
          /\ NothingSent
          /\ conn'[response'.ws].iter = <<>>
          /\ conn'[response'.ws].pc = "recv"
          /\ conn'[response'.ws].alive]_vars

---------------------------------------------------------------------------
(* Properties of the history list *)

\* the positions of the log of board b that the filter lets through
Matching(b, event_type) ==
    {i \in 1..Len(event_store[b]) :
        event_type = <<>> \/ event_store[b][i].event_type = event_type[1]}

\* how many of the matching events are newer than sequence number n
NewerThan(b, event_type, n) ==
    Cardinality({i \in Matching(b, event_type) :
                    event_store[b][i].sequence_num > n})

\* C34: the history list returns the events of the board whose kind is the
\* one asked for (all events without a filter), newest first in strictly
\* descending sequence order, and of that ordering the positions offset to
\* offset+limit-1; total is the number of matching events, hasMore says
\* whether offset+limit < total; the request changes nothing.
C34_HistoryList ==
    [][(response' # <<>> /\ response'.op = "history")
       => LET r == response'
              b == r.board
              F == Matching(b, r.event_type)
              total == Cardinality(F)
              rest == IF total > r.offset THEN total - r.offset ELSE 0
          IN /\ r.total = total
             /\ r.has_more <=> (r.offset + r.limit < total)
             /\ Len(r.events) = IF rest < r.limit THEN rest ELSE r.limit
             /\ \A k \in 1..Len(r.events) :
                   /\ \E i \in F : r.events[k] = ByValue(event_store[b][i], heap)
                   /\ NewerThan(b, r.event_type, r.events[k].sequence_num)
                        = r.offset + k - 1
             /\ \A k \in 1..(Len(r.events) - 1) :
                   r.events[k].sequence_num > r.events[k + 1].sequence_num
             /\ UNCHANGED <<event_store, heap, board_indexes, appended,
                            active_connections, voice_channels,
                            voice_user_channels, workspace_regions, conn>>]_vars

\* a page from the middle of a filtered history: the log holds events of
\* messages and of a rollback, the filter drops some of them, the page
\* starts after the newest match and more matches follow it
C34_Witness ==
    /\ response # <<>>
    /\ response.op = "history"
    /\ response.event_type # <<>>
    /\ response.offset = 1
    /\ response.events # <<>>
    /\ response.has_more
    /\ response.total < Len(event_store[response.board])
    /\ \E i \in 1..Len(event_store[response.board]) :
          IsRollbackEvent(event_store[response.board][i])


\* the sequence numbers of the object notifications on the transport of v
NoticeSeqs(c, v) ==
    {c[v].inbox[w][i].seq :
        <<w, i>> \in {p \in Conns \X (1..MaxLog) :
                        /\ p[2] <= Len(c[v].inbox[p[1]])
                        /\ c[v].inbox[p[1]][p[2]].type \in ObjectNotices}}

\* C35: each session is sent the object notifications of its board in the
\* order of the sequence numbers of their events: when a notification is
\* put on a transport, no notification of a later event is on it already,
\* also when the broadcasts of different senders are in flight together.
C35_NoticesInLogOrder ==
    [][\A v \in Conns :
        \A n \in NoticeSeqs(conn', v) \ NoticeSeqs(conn, v) :
            \A m \in NoticeSeqs(conn, v) : m < n]_vars

---------------------------------------------------------------------------
(* Properties of connections that share a user id *)

\* the connect of w has returned, its endpoint has not left the receive
\* loop and its transport accepts messages
Established(w) ==
    /\ conn[w].alive
    /\ \/ conn[w].pc = "recv"
       \/ conn[w].pc = "bcast" /\ conn[w].iter[1].ctx = "handler"

\* no connection opened after w uses the user id of w on the board of w
\* (connections are opened in the order of their numbers)
NotReplaced(w) ==
    \A v \in Conns :
        (v > w /\ conn[v].pc # "init")
          => ~(/\ conn[v].board_id = conn[w].board_id
               /\ conn[v].user_id = conn[w].user_id)

\* C36: a connection whose connect has completed, which has not closed and
\* whose transport has failed no delivery is registered in the session set
\* of its board and its user has a voice membership there; stated for the
\* newest connection of its user id: the close of an older connection with
\* the same user id on the board removes neither.
C36_StaysRegistered ==
    \A w \in Conns :
        (Established(w) /\ NotReplaced(w))
          => /\ w \in Registered(active_connections[conn[w].board_id])
             /\ conn[w].user_id
                  \in DOMAIN voice_user_channels[conn[w].board_id]

---------------------------------------------------------------------------
(* Properties of the voice membership *)

\* C37: every user id with a voice membership on a board is the user id of
\* a session that is connected to the board.
C37_MembersAreConnected ==
    \A b \in Boards : \A u \in DOMAIN voice_user_channels[b] :
        HasUser(active_connections[b], u)

\* C38: the channel of every voice membership on a board is a channel of
\* the board's channel registry.
C38_MemberChannelsExist ==
    \A b \in Boards : \A u \in DOMAIN voice_user_channels[b] :
        voice_user_channels[b][u] \in DOMAIN voice_channels[b]

---------------------------------------------------------------------------
(* Properties of what a connecting session is told about the canvas *)

\* no task is inside a connect or a broadcast: every send has been made
AllSent == \A v \in Conns : conn[v].pc \in {"init", "recv", "done"}

\* the board_sync of its connect has told session w about object o
InBoardSync(w, o) ==
    \E i \in 1..Len(conn[w].inbox[w]) :
        /\ conn[w].inbox[w][i].type = "board_sync"
        /\ o \in DOMAIN conn[w].inbox[w][i].objects

\* session w has been sent the notification of an event of object o
NotifiedOf(w, b, o) ==
    \E n \in 1..Len(event_store[b]) :
        event_store[b][n].object_id = o /\ Notified(w, n)

\* the user of session w has sent a message about object o
ActorOf(w, b, o) ==
    \E n \in 1..Len(event_store[b]) :
        /\ event_store[b][n].object_id = o
        /\ event_store[b][n].guest_session_id = conn[w].user_id

\* C39: a session misses no canvas mutation: when every send has been made,
\* a session that is registered on the board, waits for messages and has a
\* transport that accepts them has been told of every object of the board's
\* index, by the board_sync of its connect or by the notification of the
\* object's message (the sessions of the user who sent the message are left
\* aside).
C39_NoMutationMissed ==
    \A w \in Conns :
        (/\ AllSent
         /\ conn[w].pc = "recv"
         /\ conn[w].alive
         /\ w \in Registered(active_connections[conn[w].board_id]))
        => \A o \in DOMAIN board_indexes[conn[w].board_id].objects :
              \/ ActorOf(w, conn[w].board_id, o)
              \/ InBoardSync(w, o)
              \/ NotifiedOf(w, conn[w].board_id, o)

---------------------------------------------------------------------------
(* Properties of the snapshot and the index *)

\* the dict of the create event at position i of board b is no longer what
\* it was when the event was appended: a replay has updated it in place
CreateDictChanged(b, i) ==
    /\ event_store[b][i].event_type = "create"
    /\ <<heap[event_store[b][i].new_state]>> # appended[b][i].new_state

\* C40: a snapshot request leaves the spatial indexes as they are: for every
\* board and every object id the payload that the index holds is the same
\* before and after the request, whatever create and update events the log
\* holds for the object.
C40_SnapshotKeepsIndex ==
    [][(response' # <<>> /\ response'.op = "snapshot")
       => \A b \in Boards :
             /\ board_indexes'[b] = board_indexes[b]
             /\ IndexView(board_indexes'[b], heap')
                  = IndexView(board_indexes[b], heap)]_vars

\* a snapshot has been taken of a board whose index holds an object with a
\* create event and a later update event, and the replay has updated the
\* dict of the create event in place
C40_Witness ==
    /\ response # <<>>
    /\ response.op = "snapshot"
    /\ \E i, j \in 1..Len(event_store[response.board]) :
          LET b == response.board
          IN /\ i < j
             /\ CreateDictChanged(b, i)
             /\ event_store[b][j].event_type = "update"
             /\ event_store[b][j].object_id = event_store[b][i].object_id
             /\ event_store[b][i].object_id \in DOMAIN board_indexes[b].objects

=============================================================================
